---- MODULE Spec2Model ----
(***************************************************************************)
(* Model of the VBridger lip-sync engine (VBridgerService) of              *)
(* packages/lipsync-vbridger: the playback session, the pose pair, the     *)
(* tier selector and the asynchronous onTtsAudioReady calls in flight.     *)
(*                                                                         *)
(* Numbers.  A JavaScript number is modelled as a pair <<n, d>>: for       *)
(* d > 0 the exact fraction n/d in lowest terms, and for d = 0 the         *)
(* non-finite values NaN = <<0,0>>, +Infinity = <<1,0>>,                   *)
(* -Infinity = <<-1,0>>.  Times of the audio are in seconds, the clock     *)
(* (performance.now()) is in milliseconds, as in the source.               *)
(***************************************************************************)
EXTENDS Integers, Sequences, FiniteSets, TLC

VARIABLES
    timingProvider,      \* VBridgerService.timingProvider (a provider name)
    fallbackProvider,    \* VBridgerService.fallbackProvider (NoProvider when unset)
    useAccurateProvider, \* VBridgerService.useAccurateProvider
    currentPose,         \* VBridgerService.currentPose
    targetPose,          \* VBridgerService.targetPose
    playbackState,       \* VBridgerService.playbackState (NoSession when null)
    isPaused,            \* VBridgerService.isPaused
    calls,               \* the onTtsAudioReady invocations, in call order
    lastFulfilled,       \* index of the call whose await fulfilled last (0: none yet)
    returned,            \* value returned by the last update() call
    now,                 \* performance.now(), in milliseconds
    ticks,               \* number of update() calls made so far
    lastEvent,           \* the last of onTtsAudioStart / onTtsAudioEnd called
    lastUpdate,          \* the branch the last update() call took
    ttsText,             \* the host's ttsText ref
    ttsAudioDuration,    \* the host's ttsAudioDuration ref
    ttsIsPlaying,        \* the host's ttsIsPlaying ref
    lastTtsText,         \* plugin closure: lastTtsText
    lastTtsAudioDuration, \* plugin closure: lastTtsAudioDuration
    lastTtsIsPlaying,    \* plugin closure: lastTtsIsPlaying
    audioReady,          \* plugin closure: audioReady
    lastUpdateTime,      \* plugin closure: lastUpdateTime, in milliseconds
    frames,              \* number of frames the plugin has been called for
    frame,               \* what the last frame did to the host context
    thisNeutralThreshold, \* VBridgerService.neutralThreshold (this.neutralThreshold)
    args,                \* the arguments an interpolation function is called with
    result,              \* the function called and the value it returned
    lastIndex,           \* PHONEME_IGNORE_CHARS.lastIndex (espeak.ts)
    currentEmotion,      \* EmotionStore.currentEmotion
    emotionStartTime,    \* EmotionStore.emotionStartTime, in seconds
    emotionEndTime,      \* EmotionStore.emotionEndTime, in seconds
    storeClock,          \* the clock the callers of the store read, in seconds
    lastSetEmotion,      \* the last setEmotion call, and whether the hold was touched since
    services,            \* SYNServiceManager.services (NoChild: no entry)
    children,            \* the child processes spawned, in spawn order
    starts,              \* the startService calls made, in call order
    stopAllCalled,       \* stopAll has been called
    classifier,          \* EmotionMLDetector.classifier is set
    initPromise,         \* EmotionMLDetector.initPromise (NoPromise when null)
    isLoading,           \* EmotionMLDetector.isLoading
    pipelines,           \* the pipeline(...) promises created, in creation order
    loads,               \* the model loads init started: where each one stands
    staticPoses,         \* the pose objects of phoneme-map.ts, by name
    heap,                \* the pose objects the service created, in creation order
    currentRef,          \* the object VBridgerService.currentPose refers to
    targetRef,           \* the object VBridgerService.targetPose refers to
    seenTts              \* ttsText and ttsAudioDuration as the last processed frame read them

vars == <<timingProvider, fallbackProvider, useAccurateProvider, currentPose,
          targetPose, playbackState, isPaused, calls, lastFulfilled, returned,
          now, ticks, lastEvent, lastUpdate, ttsText, ttsAudioDuration,
          ttsIsPlaying, lastTtsText, lastTtsAudioDuration, lastTtsIsPlaying,
          audioReady, lastUpdateTime, frames, frame, thisNeutralThreshold,
          args, result, lastIndex, currentEmotion, emotionStartTime, emotionEndTime,
          storeClock, lastSetEmotion, services, children, starts, stopAllCalled,
          classifier, initPromise, isLoading, pipelines, loads, staticPoses, heap,
          currentRef, targetRef, seenTts>>

engineVars == <<currentPose, targetPose, playbackState, isPaused>>

histVars == <<lastEvent, lastUpdate>>

tierVars == <<timingProvider, fallbackProvider, useAccurateProvider>>

hostVars == <<ttsText, ttsAudioDuration, ttsIsPlaying>>

closureVars == <<lastTtsText, lastTtsAudioDuration, lastTtsIsPlaying, audioReady,
                 lastUpdateTime>>

pluginVars == <<hostVars, closureVars, frames, frame>>

\* the lip-sync service and the plugin that drives it
lipsyncVars == <<tierVars, engineVars, histVars, calls, lastFulfilled, returned, now, ticks,
                 pluginVars, thisNeutralThreshold>>

\* an EmotionStore and the clock of its callers
storeVars == <<currentEmotion, emotionStartTime, emotionEndTime, storeClock, lastSetEmotion>>

\* the service manager, its startService calls and the processes it spawned
managerVars == <<services, children, starts, stopAllCalled>>

\* the EmotionMLDetector instance, its model loads and their pipelines
detectorVars == <<classifier, initPromise, isLoading, pipelines, loads>>

\* the pose objects: the static ones, those the service allocated, and the
\* two the service refers to
objectVars == <<staticPoses, heap, currentRef, targetRef>>

\* the state of the other packages, the objects behind the poses, and the
\* utterance the plugin's last processed frame read
componentVars == <<lastIndex, storeVars, managerVars, detectorVars, objectVars, seenTts>>

otherVars == <<thisNeutralThreshold, args, result, componentVars>>

(***************************************************************************)
(* Bounds of the model.                                                    *)
(***************************************************************************)
MaxCalls == 2

MaxTicks == 1

MaxClockSteps == 1

\* milliseconds by which the clock is seen to advance between operations
ClockSteps == {50}

MaxNow == MaxClockSteps * 50

(***************************************************************************)
(* Number arithmetic.                                                      *)
(***************************************************************************)
\* An operator whose argument is used more than once binds it first
\* (CHOOSE v \in {Once(x) : x \in {x0}} : TRUE), so that the argument is
\* evaluated once however the operator is reached.
RECURSIVE GCD(_, _)
GCD(a0, b0) ==
    LET Once(a, b) ==
            IF b = 0 THEN a ELSE GCD(b, a % b)
    IN  CHOOSE v \in {Once(a, b) : a \in {a0}, b \in {b0}} : TRUE

Abs(x) == IF x < 0 THEN -x ELSE x

Sign(x) == IF x < 0 THEN -1 ELSE IF x > 0 THEN 1 ELSE 0

(***************************************************************************)
(* Binary64 arithmetic.  Where the rounding of a JavaScript number         *)
(* matters, the number is a triple <<s, m, e>> standing for s * m * 2^e:   *)
(* s is the sign (0 for zero), m a natural number of exactly 53 bits held   *)
(* as a little-endian sequence of limbs, e the exponent.  Every operation  *)
(* computes the exact result and rounds it to nearest, ties to even, as    *)
(* IEEE 754 prescribes.  The exponent is unbounded: no operand of the      *)
(* model comes near overflow or the subnormal range.                       *)
(* The specifications of the engine compute in exact fractions; the        *)
(* specifications of functions whose result depends on the rounding        *)
(* compute in binary64, through DAdd, DMul, DDiv and DLt.                  *)
(***************************************************************************)
LimbBits == 15

LimbBase == 2^LimbBits

Precision == 53

IsDouble(x) == Len(x) = 3

NaN == <<0, 0>>

IsNaN(x) == x = NaN

IsFinite(x) == IsDouble(x) \/ x[2] > 0

\* The operations of binary64 arithmetic, op naming the one applied to x, y, z, w
RECURSIVE Binary64(_, _, _, _, _)
Binary64(op, x, y, z, w) ==
    LET BigNorm(a) == Binary64("BigNorm", a, 0, 0, 0)
        BigFromNat(a) == Binary64("BigFromNat", a, 0, 0, 0)
        BigCmpFrom(a, b, c) == Binary64("BigCmpFrom", a, b, c, 0)
        BigCmp(a, b) == Binary64("BigCmp", a, b, 0, 0)
        BigAddC(a, b, c) == Binary64("BigAddC", a, b, c, 0)
        BigSubB(a, b, c) == Binary64("BigSubB", a, b, c, 0)
        BigSub(a, b) == Binary64("BigSub", a, b, 0, 0)
        BigMulSmallC(a, b, c) == Binary64("BigMulSmallC", a, b, c, 0)
        BigMul(a, b) == Binary64("BigMul", a, b, 0, 0)
        Zeros(a) == Binary64("Zeros", a, 0, 0, 0)
        BigShl(a, b) == Binary64("BigShl", a, b, 0, 0)
        BigDivSmallR(a, b, c) == Binary64("BigDivSmallR", a, b, c, 0)
        BigShr(a, b) == Binary64("BigShr", a, b, 0, 0)
        BitLenSmall(a) == Binary64("BitLenSmall", a, 0, 0, 0)
        BigBitLen(a) == Binary64("BigBitLen", a, 0, 0, 0)
        BigShrRound(a, b, c) == Binary64("BigShrRound", a, b, c, 0)
        BigDivModFrom(a, b, c, d) == Binary64("BigDivModFrom", a, b, c, d)
        DRound(a, b, c, d) == Binary64("DRound", a, b, c, d)
        DAdd(a, b) == Binary64("DAdd", a, b, 0, 0)
        DMul(a, b) == Binary64("DMul", a, b, 0, 0)
        DDiv(a, b) == Binary64("DDiv", a, b, 0, 0)
        DLt(a, b) == Binary64("DLt", a, b, 0, 0)
        ToDouble(a) == Binary64("ToDouble", a, 0, 0, 0)
    IN  CASE
           op = "BigNorm" ->
              (IF x = << >> THEN x
               ELSE IF x[Len(x)] = 0 THEN BigNorm(SubSeq(x, 1, Len(x) - 1)) ELSE x)
        [] op = "BigFromNat" ->
              LET n == x
              IN  (IF n = 0 THEN << >> ELSE <<n % LimbBase>> \o BigFromNat(n \div LimbBase))
        [] op = "BigCmpFrom" ->
              LET i == z
              IN  (IF i = 0 THEN 0
                   ELSE IF x[i] # y[i] THEN Sign(x[i] - y[i])
                   ELSE BigCmpFrom(x, y, i - 1))
        \* -1, 0 or 1 as x is below, equal to or above y
        [] op = "BigCmp" ->
              (IF Len(x) # Len(y) THEN Sign(Len(x) - Len(y)) ELSE BigCmpFrom(x, y, Len(x)))
        [] op = "BigAddC" ->
              LET c == z
              IN  (IF x = << >> /\ y = << >> THEN (IF c = 0 THEN << >> ELSE <<c>>)
                   ELSE LET a == IF x = << >> THEN 0 ELSE x[1]
                            b == IF y = << >> THEN 0 ELSE y[1]
                            t == a + b + c
                        IN  <<t % LimbBase>> \o BigAddC(IF x = << >> THEN x ELSE Tail(x),
                                                        IF y = << >> THEN y ELSE Tail(y),
                                                        t \div LimbBase))
        [] op = "BigSubB" ->
              LET borrow == z
              IN  (IF x = << >> THEN << >>
                   ELSE LET b == IF y = << >> THEN 0 ELSE y[1]
                            t == x[1] - b - borrow
                        IN  <<IF t < 0 THEN t + LimbBase ELSE t>>
                                \o BigSubB(Tail(x), IF y = << >> THEN y ELSE Tail(y),
                                           IF t < 0 THEN 1 ELSE 0))
        \* x - y for x >= y
        [] op = "BigSub" ->
              (BigNorm(BigSubB(x, y, 0)))
        [] op = "BigMulSmallC" ->
              LET k == y
                  c == z
              IN  (IF x = << >> THEN (IF c = 0 THEN << >> ELSE <<c>>)
                   ELSE LET t == x[1] * k + c
                        IN  <<t % LimbBase>> \o BigMulSmallC(Tail(x), k, t \div LimbBase))
        [] op = "BigMul" ->
              (IF x = << >> \/ y = << >> THEN << >>
               ELSE BigNorm(BigAddC(BigNorm(BigMulSmallC(x, y[1], 0)), <<0>> \o BigMul(x, Tail(y)), 0)))
        [] op = "Zeros" ->
              LET n == x
              IN  (IF n = 0 THEN << >> ELSE <<0>> \o Zeros(n - 1))
        \* x * 2^k
        [] op = "BigShl" ->
              LET k == y
              IN  (IF x = << >> THEN x
                   ELSE Zeros(k \div LimbBits) \o BigNorm(BigMulSmallC(x, 2^(k % LimbBits), 0)))
        [] op = "BigDivSmallR" ->
              LET d == y
                  rem == z
              IN  (IF x = << >> THEN << >>
                   ELSE LET cur == rem * LimbBase + x[Len(x)]
                        IN  BigDivSmallR(SubSeq(x, 1, Len(x) - 1), d, cur % d) \o <<cur \div d>>)
        \* floor(x / 2^k)
        [] op = "BigShr" ->
              LET k == y
              IN  (IF Len(x) <= k \div LimbBits THEN << >>
                   ELSE BigNorm(BigDivSmallR(SubSeq(x, (k \div LimbBits) + 1, Len(x)),
                                             2^(k % LimbBits), 0)))
        [] op = "BitLenSmall" ->
              LET n == x
              IN  (IF n = 0 THEN 0 ELSE 1 + BitLenSmall(n \div 2))
        [] op = "BigBitLen" ->
              (IF x = << >> THEN 0 ELSE LimbBits * (Len(x) - 1) + BitLenSmall(x[Len(x)]))
        \* x / 2^k rounded to nearest, ties to even; sticky says that the exact value
        \* lies strictly above x
        [] op = "BigShrRound" ->
              LET k == y
                  sticky == z
              IN  (IF k = 0 THEN x
                   ELSE LET f    == BigShr(x, k)
                            rem  == BigSub(x, BigShl(f, k))
                            half == BigShl(<<1>>, k - 1)
                            c    == BigCmp(rem, half)
                            odd  == f # << >> /\ f[1] % 2 = 1
                        IN  IF c > 0 \/ (c = 0 /\ (sticky \/ odd)) THEN BigAddC(f, <<1>>, 0) ELSE f)
        \* quotient and remainder of r * 2^k / d continuing from quotient q, eight
        \* bits at a time, for r < d and k a multiple of 8
        [] op = "BigDivModFrom" ->
              LET d == x
                  k == y
                  Bit(qr) == LET r2 == BigAddC(qr[2], qr[2], 0)
                                 ge == BigCmp(r2, d) >= 0
                             IN  <<BigAddC(qr[1], qr[1], IF ge THEN 1 ELSE 0),
                                   IF ge THEN BigSub(r2, d) ELSE r2>>
              IN  (IF k = 0 THEN <<z, w>>
                   ELSE LET qr == Bit(Bit(Bit(Bit(Bit(Bit(Bit(Bit(<<z, w>>))))))))
                        IN  IF Len(qr[1]) + Len(qr[2]) < 0 THEN qr
                            ELSE BigDivModFrom(d, k - 8, qr[1], qr[2]))
        \* the binary64 number nearest to s * m * 2^e (to a value just above it when
        \* sticky)
        [] op = "DRound" ->
              LET s == x
                  m == y
                  e == z
                  sticky == w
              IN  (IF m = << >> THEN <<0, << >>, 0>>
                   ELSE LET len == BigBitLen(m)
                        IN  IF len <= Precision
                            THEN <<s, BigShl(m, Precision - len), e - (Precision - len)>>
                            ELSE LET k == len - Precision
                                     r == BigShrRound(m, k, sticky)
                                 IN  IF BigBitLen(r) > Precision
                                     THEN <<s, BigShr(r, 1), e + k + 1>>
                                     ELSE <<s, r, e + k>>)
        [] op = "DAdd" ->
              (IF x[1] = 0 THEN y
               ELSE IF y[1] = 0 THEN x
               ELSE LET e  == IF x[3] < y[3] THEN x[3] ELSE y[3]
                        mx == BigShl(x[2], x[3] - e)
                        my == BigShl(y[2], y[3] - e)
                        c  == BigCmp(mx, my)
                    IN  IF x[1] = y[1] THEN DRound(x[1], BigAddC(mx, my, 0), e, FALSE)
                        ELSE IF c = 0 THEN <<0, << >>, 0>>
                        ELSE IF c > 0 THEN DRound(x[1], BigSub(mx, my), e, FALSE)
                        ELSE DRound(y[1], BigSub(my, mx), e, FALSE))
        [] op = "DMul" ->
              (IF x[1] = 0 \/ y[1] = 0 THEN <<0, << >>, 0>>
               ELSE DRound(x[1] * y[1], BigMul(x[2], y[2]), x[3] + y[3], FALSE))
        \* x / y for y # 0
        [] op = "DDiv" ->
              (IF x[1] = 0 THEN <<0, << >>, 0>>
               ELSE LET qr == IF BigCmp(x[2], y[2]) >= 0
                              THEN BigDivModFrom(y[2], Precision + 3, <<1>>, BigSub(x[2], y[2]))
                              ELSE BigDivModFrom(y[2], Precision + 3, << >>, x[2])
                    IN  DRound(x[1] * y[1], qr[1], x[3] - y[3] - (Precision + 3), qr[2] # << >>))
        \* x < y
        [] op = "DLt" ->
              (IF x[1] # y[1] THEN x[1] < y[1]
               ELSE IF x[1] = 0 THEN FALSE
               ELSE LET c == IF x[3] # y[3] THEN Sign(x[3] - y[3]) ELSE BigCmp(x[2], y[2])
                    IN  x[1] * c < 0)
        \* the binary64 number a finite exact fraction n/d is read or rounded as
        [] op = "ToDouble" ->
              (IF IsDouble(x) THEN x
               ELSE DDiv(DRound(Sign(x[1]), BigFromNat(Abs(x[1])), 0, FALSE),
                         DRound(1, BigFromNat(x[2]), 0, FALSE)))
        \* x + y, x * y, x / y and x < y as JavaScript computes them, of numbers
        \* given as doubles, exact fractions, NaN or a signed Infinity
        [] op = "+" ->
              (IF IsNaN(x) \/ IsNaN(y) THEN NaN
               ELSE IF ~IsFinite(x) /\ ~IsFinite(y) THEN (IF x = y THEN x ELSE NaN)
               ELSE IF ~IsFinite(x) THEN x
               ELSE IF ~IsFinite(y) THEN y
               ELSE DAdd(ToDouble(x), ToDouble(y)))
        [] op = "*" ->
              (IF IsNaN(x) \/ IsNaN(y) THEN NaN
               ELSE IF ~IsFinite(x) \/ ~IsFinite(y) THEN <<Sign(x[1]) * Sign(y[1]), 0>>
               ELSE DMul(ToDouble(x), ToDouble(y)))
        [] op = "/" ->
              (IF IsNaN(x) \/ IsNaN(y) THEN NaN
               ELSE IF ~IsFinite(y) THEN (IF IsFinite(x) THEN <<0, 1>> ELSE NaN)
               ELSE IF ~IsFinite(x) THEN <<x[1] * (IF y[1] < 0 THEN -1 ELSE 1), 0>>
               ELSE IF y[1] = 0 THEN <<Sign(x[1]), 0>>
               ELSE DDiv(ToDouble(x), ToDouble(y)))
        [] op = "<" ->
              (IF IsNaN(x) \/ IsNaN(y) THEN FALSE
               ELSE IF ~IsFinite(x) THEN x[1] < 0 /\ y # x
               ELSE IF ~IsFinite(y) THEN y[1] > 0
               ELSE DLt(ToDouble(x), ToDouble(y)))

DAdd(x, y) == Binary64("+", x, y, 0, 0)

DMul(x, y) == Binary64("*", x, y, 0, 0)

DDiv(x, y) == Binary64("/", x, y, 0, 0)

DLt(x, y) == Binary64("<", x, y, 0, 0)

\* the binary64 number a finite exact fraction n/d is read or rounded as
ToDouble(x) == Binary64("ToDouble", x, 0, 0, 0)

\* the number n/d; d = 0 gives NaN or a signed Infinity, as JavaScript division does
Rat(n0, d0) ==
    LET Once(n, d) ==
            IF d = 0 THEN <<Sign(n), 0>>
            ELSE LET g == GCD(Abs(n), Abs(d))
                     s == IF d < 0 THEN -1 ELSE 1
                 IN  <<(s * n) \div g, (s * d) \div g>>
    IN  CHOOSE v \in {Once(n, d) : n \in {n0}, d \in {d0}} : TRUE

Num(n) == <<n, 1>>

Neg(x) == IF IsDouble(x) THEN <<-x[1], x[2], x[3]>> ELSE <<-x[1], x[2]>>

Add(x0, y0) ==
    LET Once(x, y) ==
            IF IsNaN(x) \/ IsNaN(y) THEN NaN
            ELSE IF ~IsFinite(x) /\ ~IsFinite(y) THEN (IF x = y THEN x ELSE NaN)
            ELSE IF ~IsFinite(x) THEN x
            ELSE IF ~IsFinite(y) THEN y
            ELSE LET g == GCD(x[2], y[2])
                     l == (x[2] \div g) * y[2]
                 IN  Rat(x[1] * (l \div x[2]) + y[1] * (l \div y[2]), l)
    IN  CHOOSE v \in {Once(x, y) : x \in {x0}, y \in {y0}} : TRUE

Sub(x, y) == Add(x, Neg(y))

Mul(x0, y0) ==
    LET Once(x, y) ==
            IF IsNaN(x) \/ IsNaN(y) THEN NaN
            ELSE IF ~IsFinite(x) \/ ~IsFinite(y) THEN <<Sign(x[1]) * Sign(y[1]), 0>>
            ELSE LET g1 == GCD(Abs(x[1]), y[2])
                     g2 == GCD(Abs(y[1]), x[2])
                 IN  Rat((x[1] \div g1) * (y[1] \div g2), (x[2] \div g2) * (y[2] \div g1))
    IN  CHOOSE v \in {Once(x, y) : x \in {x0}, y \in {y0}} : TRUE

Div(x0, y0) ==
    LET Once(x, y) ==
            IF IsNaN(x) \/ IsNaN(y) THEN NaN
            ELSE IF ~IsFinite(y) THEN (IF IsFinite(x) THEN Num(0) ELSE NaN)
            ELSE IF ~IsFinite(x) THEN <<x[1] * (IF y[1] < 0 THEN -1 ELSE 1), 0>>
            ELSE IF y[1] = 0 THEN <<Sign(x[1]), 0>>
            ELSE Mul(x, Rat(y[2], y[1]))
    IN  CHOOSE v \in {Once(x, y) : x \in {x0}, y \in {y0}} : TRUE

\* x < y; false when either side is NaN
Lt(x0, y0) ==
    LET Once(x, y) ==
            IF IsNaN(x) \/ IsNaN(y) THEN FALSE
            ELSE IF ~IsFinite(x) THEN x[1] < 0 /\ y # x
            ELSE IF ~IsFinite(y) THEN y[1] > 0
            ELSE x[1] * y[2] < y[1] * x[2]
    IN  CHOOSE v \in {Once(x, y) : x \in {x0}, y \in {y0}} : TRUE

Gt(x, y) == Lt(y, x)

Ge(x, y) == ~IsNaN(x) /\ ~IsNaN(y) /\ ~Lt(x, y)

\* Math.min / Math.max: NaN when either argument is NaN
MathMin(x0, y0) ==
    LET Once(x, y) ==
            IF IsNaN(x) \/ IsNaN(y) THEN NaN ELSE IF Lt(y, x) THEN y ELSE x
    IN  CHOOSE v \in {Once(x, y) : x \in {x0}, y \in {y0}} : TRUE

MathMax(x0, y0) ==
    LET Once(x, y) ==
            IF IsNaN(x) \/ IsNaN(y) THEN NaN ELSE IF Lt(x, y) THEN y ELSE x
    IN  CHOOSE v \in {Once(x, y) : x \in {x0}, y \in {y0}} : TRUE

(***************************************************************************)
(* Pose vectors and the pose table.                                        *)
(***************************************************************************)
Channels == {"mouthOpenY", "jawOpen", "mouthForm", "mouthShrug", "mouthFunnel",
             "mouthPuckerWiden", "mouthPressLipOpen", "mouthX", "cheekPuffC"}

NEUTRAL_POSE == [c \in Channels |-> Num(0)]

\* Pose(...) lists the nine channels in the order of the PhonemePose interface
Pose(openY, jaw, form, shrug, funnel, pucker, press, x, cheek) ==
    [mouthOpenY |-> openY, jawOpen |-> jaw, mouthForm |-> form, mouthShrug |-> shrug,
     mouthFunnel |-> funnel, mouthPuckerWiden |-> pucker, mouthPressLipOpen |-> press,
     mouthX |-> x, cheekPuffC |-> cheek]

\* the entries of PHONEME_MAP that the modelled providers produce, and the
\* diphthongs with their one-letter shorthands; a symbol outside ASCII is
\* written with the code point of each such character, as in e<026A>
PHONEME_MAP ==
    [SIL |-> NEUTRAL_POSE,
     b   |-> [NEUTRAL_POSE EXCEPT !.mouthPressLipOpen = Num(-1),
                                  !.cheekPuffC = Rat(6, 10)],
     m   |-> [NEUTRAL_POSE EXCEPT !.mouthPressLipOpen = Num(-1)],
     h   |-> [NEUTRAL_POSE EXCEPT !.mouthOpenY = Rat(2, 10),
                                  !.jawOpen = Rat(2, 10),
                                  !.mouthPressLipOpen = Rat(5, 10)],
     i   |-> [NEUTRAL_POSE EXCEPT !.mouthOpenY = Rat(1, 10),
                                  !.jawOpen = Rat(1, 10),
                                  !.mouthForm = Rat(7, 10),
                                  !.mouthShrug = Rat(4, 10),
                                  !.mouthPuckerWiden = Rat(-9, 10),
                                  !.mouthPressLipOpen = Rat(9, 10)],
     A   |-> Pose(Rat(3, 10), Rat(3, 10), Rat(4, 10), Num(0), Num(0), Rat(-7, 10),
                  Rat(8, 10), Num(0), Num(0)),
     I   |-> Pose(Rat(4, 10), Rat(4, 10), Rat(3, 10), Num(0), Num(0), Rat(-6, 10),
                  Rat(8, 10), Num(0), Num(0)),
     W   |-> Pose(Rat(3, 10), Rat(3, 10), Num(0), Num(0), Rat(9, 10), Rat(8, 10),
                  Num(0), Num(0), Num(0)),
     Y   |-> Pose(Rat(3, 10), Rat(3, 10), Rat(2, 10), Num(0), Num(0), Rat(-5, 10),
                  Rat(8, 10), Num(0), Num(0)),
     O   |-> Pose(Rat(3, 10), Rat(3, 10), Num(0), Num(0), Rat(8, 10), Rat(6, 10),
                  Rat(1, 10), Num(0), Num(0))]
    @@ ("o<028A>" :> Pose(Rat(3, 10), Rat(3, 10), Num(0), Num(0), Rat(8, 10),
                          Rat(6, 10), Rat(1, 10), Num(0), Num(0)))
    @@ ("a<026A>" :> Pose(Rat(4, 10), Rat(4, 10), Rat(3, 10), Num(0), Num(0),
                          Rat(-6, 10), Rat(8, 10), Num(0), Num(0)))
    @@ ("a<028A>" :> Pose(Rat(3, 10), Rat(3, 10), Num(0), Num(0), Rat(9, 10),
                          Rat(8, 10), Num(0), Num(0), Num(0)))
    @@ ("e<026A>" :> Pose(Rat(3, 10), Rat(3, 10), Rat(4, 10), Num(0), Num(0),
                          Rat(-7, 10), Rat(8, 10), Num(0), Num(0)))
    @@ ("<0254><026A>" :> Pose(Rat(3, 10), Rat(3, 10), Rat(2, 10), Num(0), Num(0),
                               Rat(-5, 10), Rat(8, 10), Num(0), Num(0)))

\* names every object literal inherits from Object.prototype
ObjectPrototypeKeys ==
    {"constructor", "toString", "toLocaleString", "valueOf", "hasOwnProperty",
     "isPrototypeOf", "propertyIsEnumerable", "__proto__"}

\* the value of an inherited property: a function or object, not a pose
Inherited(name) == [inherited |-> name]

\* PHONEME_MAP[phoneme]: an own entry, else an inherited property, else undefined
Undefined == [undefined |-> TRUE]

\* a table read that knows the one-letter symbols only
Lookup_OneLetter(phoneme) ==
    IF phoneme \in DOMAIN PHONEME_MAP /\ phoneme \in {"SIL", "b", "m", "h", "i", "A", "I", "W", "Y", "O"}
    THEN PHONEME_MAP[phoneme]
    ELSE IF phoneme \in ObjectPrototypeKeys THEN Inherited(phoneme)
    ELSE Undefined

Lookup(phoneme) ==
    IF phoneme \in DOMAIN PHONEME_MAP THEN PHONEME_MAP[phoneme]
    ELSE IF phoneme \in ObjectPrototypeKeys THEN Inherited(phoneme)
    ELSE Undefined

\* VBridgerService.getPoseForPhoneme: neutral when the lookup gives nothing
getPoseForPhoneme(phoneme) ==
    IF Lookup(phoneme) = Undefined THEN NEUTRAL_POSE ELSE Lookup(phoneme)

\* getPoseForPhoneme exported by phoneme-map.ts: PHONEME_MAP[phoneme] ?? NEUTRAL_POSE
MapGetPoseForPhoneme(phoneme) ==
    IF Lookup(phoneme) = Undefined THEN NEUTRAL_POSE ELSE Lookup(phoneme)

\* pose.channel: undefined (NaN in arithmetic and comparisons) on a non-pose value
Chan(p, c) == IF c \in DOMAIN p THEN p[c] ELSE NaN

(***************************************************************************)
(* Interpolation functions.                                                *)
(***************************************************************************)
Clamp01(t0) ==
    LET Once(t) ==
            MathMax(Num(0), MathMin(Num(1), t))
    IN  CHOOSE v \in {Once(t) :
                      t \in {t0}} : TRUE

easeInOutQuad(t00) ==
    LET Once(t0) ==
            LET t == Clamp01(t0)
            IN  IF Lt(t, Rat(1, 2))
                THEN Mul(Num(2), Mul(t, t))
                ELSE LET u == Add(Mul(Num(-2), t), Num(2))
                     IN  Sub(Num(1), Div(Mul(u, u), Num(2)))
    IN  CHOOSE v \in {Once(t0) :
                      t0 \in {t00}} : TRUE

lerp(a0, b0, t00) ==
    LET Once(a, b, t0) ==
            LET t == Clamp01(t0)
            IN  Add(a, Mul(Sub(b, a), t))
    IN  CHOOSE v \in {Once(a, b, t0) :
                      a \in {a0}, b \in {b0}, t0 \in {t00}} : TRUE

lerpPose(a0, b0, t00) ==
    LET Once(a, b, t0) ==
            LET t == Clamp01(t0)
            IN  [c \in Channels |-> lerp(Chan(a, c), Chan(b, c), t)]
    IN  CHOOSE v \in {Once(a, b, t0) :
                      a \in {a0}, b \in {b0}, t0 \in {t00}} : TRUE

\* an argument that was not passed (undefined)
NoNumber == << >>

smoothPoseToTarget(current0, target0, smoothFactor0, deltaTime0, cheekPuffDecayFactor0, neutralThreshold0) ==
    LET Once(current, target, smoothFactor, deltaTime, cheekPuffDecayFactor, neutralThreshold) ==
            LET factor == Mul(smoothFactor, deltaTime)
                newCheekPuff ==
                    IF Gt(Chan(target, "cheekPuffC"), neutralThreshold)
                    THEN lerp(Chan(current, "cheekPuffC"), Chan(target, "cheekPuffC"), factor)
                    ELSE lerp(Chan(current, "cheekPuffC"), Num(0),
                              Mul(IF cheekPuffDecayFactor = NoNumber THEN smoothFactor
                                  ELSE cheekPuffDecayFactor, deltaTime))
            IN  [c \in Channels |->
                    IF c = "cheekPuffC" THEN newCheekPuff
                    ELSE lerp(Chan(current, c), Chan(target, c), factor)]
    IN  CHOOSE v \in {Once(current, target, smoothFactor, deltaTime, cheekPuffDecayFactor,
                           neutralThreshold) :
                      current \in {current0}, target \in {target0},
                      smoothFactor \in {smoothFactor0}, deltaTime \in {deltaTime0},
                      cheekPuffDecayFactor \in {cheekPuffDecayFactor0},
                      neutralThreshold \in {neutralThreshold0}} : TRUE

(***************************************************************************)
(* Configuration (VBRIDGER_CONFIG; the service is built with no options).  *)
(***************************************************************************)
SMOOTHING_FACTOR == 35

NEUTRAL_RETURN_FACTOR == 15

CHEEK_PUFF_DECAY_FACTOR == 80

\* default value of smoothPoseToTarget's neutralThreshold parameter (0.02),
\* which update() does not pass
DefaultNeutralThreshold == Rat(2, 100)

\* VBRIDGER_CONFIG.NEUTRAL_THRESHOLD, the service's threshold when
\* options.neutralThreshold is not given
NEUTRAL_THRESHOLD == Rat(2, 100)

\* the values of options.neutralThreshold a service is built with
NeutralThresholds == {NEUTRAL_THRESHOLD, Rat(7, 10)}

(***************************************************************************)
(* Timing providers (external collaborators).  A provider's answer is a    *)
(* function of the provider and the text; it may also fail.                *)
(***************************************************************************)
Providers == {"accurate", "estimate"}

NoProvider == "none"

\* the providers handed to setFallbackProvider
FallbackProviders == {"estimate"}

\* the texts handed to onTtsAudioReady
Texts == {"mi"}

AudioDurations == {Rat(1, 4)}

TP(phoneme, startTime, endTime) ==
    [phoneme |-> phoneme, startTime |-> startTime, endTime |-> endTime]

\* provider.getTimedPhonemes(text, audioDuration, options), when it succeeds.
\* For "mi" the accurate provider gives a contiguous sequence and the estimating
\* one a sequence that starts late and has a gap; for any other text the
\* accurate provider gives an empty list and the estimating one a sequence with
\* an unknown symbol and two phonemes sharing a start time.
getTimedPhonemes(provider, text) ==
    IF provider = "accurate"
    THEN IF text = "mi"
         THEN <<TP("m", Num(0), Rat(1, 10)), TP("i", Rat(1, 10), Rat(1, 4))>>
         ELSE << >>
    ELSE IF text = "mi"
         THEN <<TP("b", Rat(1, 20), Rat(1, 10)), TP("i", Rat(3, 20), Rat(1, 4))>>
         ELSE <<TP("?", Num(0), Rat(1, 10)), TP("h", Num(0), Rat(1, 10)),
                TP("i", Rat(1, 10), Rat(1, 4))>>

(***************************************************************************)
(* The playback session.                                                   *)
(***************************************************************************)
NoSession == [isNull |-> TRUE]

AudioPlaybackState(isPlaying, startTime, audioDuration, timedPhonemes) ==
    [isNull |-> FALSE, isPlaying |-> isPlaying, startTime |-> startTime,
     audioDuration |-> audioDuration, timedPhonemes |-> timedPhonemes]

\* this.playbackState?.isPlaying
PlayingOf(ps) == IF ps.isNull THEN FALSE ELSE ps.isPlaying

isActive == PlayingOf(playbackState)

NoPhoneme == [isNull |-> TRUE]

Some(ph) == [isNull |-> FALSE, phoneme |-> ph.phoneme, startTime |-> ph.startTime,
             endTime |-> ph.endTime]

\* At that gives the first phoneme for the index before the sequence
At_Clamp(timedPhonemes, i) ==
    IF i \in 1..Len(timedPhonemes) THEN Some(timedPhonemes[i])
    ELSE IF i = 0 /\ Len(timedPhonemes) > 0 THEN Some(timedPhonemes[1])
    ELSE NoPhoneme

At(timedPhonemes, i) ==
    IF i \in 1..Len(timedPhonemes) THEN Some(timedPhonemes[i]) ELSE NoPhoneme

\* the loop of findActivePhonemes from (1-based) index i on
RECURSIVE findFrom(_, _, _)
findFrom(currentTime, timedPhonemes, i) ==
    IF i > Len(timedPhonemes)
    THEN [current |-> At(timedPhonemes, Len(timedPhonemes)), next |-> NoPhoneme]
    ELSE LET phoneme == timedPhonemes[i]
         IN  IF Ge(currentTime, phoneme.startTime) /\ Lt(currentTime, phoneme.endTime)
             THEN [current |-> Some(phoneme), next |-> At(timedPhonemes, i + 1)]
             ELSE IF Lt(currentTime, phoneme.startTime)
             THEN [current |-> At(timedPhonemes, i - 1), next |-> Some(phoneme)]
             ELSE findFrom(currentTime, timedPhonemes, i + 1)

\* the scan begun at the second phoneme
findActivePhonemes_SkipFirst(currentTime, timedPhonemes) == findFrom(currentTime, timedPhonemes, 2)

findActivePhonemes(currentTime, timedPhonemes) == findFrom(currentTime, timedPhonemes, 1)

\* calculateTargetPose dividing by the current phoneme's own duration
calculateTargetPose_OwnDuration(ps, t) ==
    IF ps.isNull THEN NEUTRAL_POSE
    ELSE LET elapsedMs   == t - ps.startTime
             currentTime == Rat(elapsedMs, 1000)
             found       == findActivePhonemes(currentTime, ps.timedPhonemes)
             current     == found.current
             next        == found.next
         IN  IF current.isNull THEN NEUTRAL_POSE
             ELSE IF next.isNull THEN getPoseForPhoneme(current.phoneme)
             ELSE LET phonemeDuration == Sub(current.endTime, current.startTime)
                      timeInPhoneme   == Sub(currentTime, current.startTime)
                      rawT            == Div(timeInPhoneme, phonemeDuration)
                  IN  lerpPose(getPoseForPhoneme(current.phoneme),
                               getPoseForPhoneme(next.phoneme), easeInOutQuad(rawT))

\* calculateTargetPose for session ps when performance.now() reads t
calculateTargetPose(ps, t) ==
    IF ps.isNull THEN NEUTRAL_POSE
    ELSE LET elapsedMs   == t - ps.startTime
             currentTime == Rat(elapsedMs, 1000)
             found       == findActivePhonemes(currentTime, ps.timedPhonemes)
             current     == found.current
             next        == found.next
         IN  IF current.isNull THEN NEUTRAL_POSE
             ELSE IF next.isNull THEN getPoseForPhoneme(current.phoneme)
             ELSE LET phonemeDuration == Sub(next.startTime, current.startTime)
                      timeInPhoneme   == Sub(currentTime, current.startTime)
                      rawT            == Div(timeInPhoneme, phonemeDuration)
                  IN  lerpPose(getPoseForPhoneme(current.phoneme),
                               getPoseForPhoneme(next.phoneme), easeInOutQuad(rawT))

\* a target that returns to neutral once the audio duration has run out
UpdateTarget_Decay(ps, t) ==
    IF PlayingOf(ps) /\ Lt(Rat(t - ps.startTime, 1000), ps.audioDuration)
    THEN calculateTargetPose(ps, t) ELSE NEUTRAL_POSE

\* the target pose update() computes
UpdateTarget(ps, t) ==
    IF PlayingOf(ps) THEN calculateTargetPose(ps, t) ELSE NEUTRAL_POSE

\* the current pose update() computes from the new target
UpdateCurrent(cur, tgt, ps, deltaTime) ==
    smoothPoseToTarget(cur, tgt,
        IF PlayingOf(ps) THEN Num(SMOOTHING_FACTOR) ELSE Num(NEUTRAL_RETURN_FACTOR),
        deltaTime, Num(CHEEK_PUFF_DECAY_FACTOR), DefaultNeutralThreshold)

\* a choice that takes the fallback provider whenever one is set
ChosenProvider_FallbackFirst ==
    IF fallbackProvider # NoProvider THEN fallbackProvider ELSE timingProvider

\* the provider onTtsAudioReady picks
ChosenProvider ==
    IF useAccurateProvider /\ fallbackProvider # NoProvider
    THEN timingProvider
    ELSE IF fallbackProvider # NoProvider THEN fallbackProvider ELSE timingProvider

\* frame times update() is called with, in seconds
DeltaTimes == {Rat(1, 50), Rat(1, 10)}

\* no interpolation function is being called, or none has returned
NoCall == [fn |-> "none"]

\* what a frame that touched nothing of the host context leaves
NoFrame ==
    [ran |-> FALSE, isActive |-> FALSE, playing |-> FALSE, block |-> {}, writes |-> << >>]

\* the plugin closure as useMotionUpdatePluginLipSyncVBridger creates it, and
\* the host's refs before it has spoken
PluginInit ==
    /\ ttsText = ""
    /\ ttsAudioDuration = Num(0)
    /\ ttsIsPlaying = FALSE
    /\ lastTtsText = ""
    /\ lastTtsAudioDuration = Num(0)
    /\ lastTtsIsPlaying = FALSE
    /\ audioReady = FALSE
    /\ lastUpdateTime = 0
    /\ frames = 0
    /\ frame = NoFrame

\* the module-level objects of the other packages, as their modules create them
\* the neutral emotion of a store constructed without a configuration
neutralEmotion == "<1F610>"

PositiveInfinity == <<1, 0>>

\* new EmotionStore(), read by callers whose clock starts at 0
StoreInit ==
    /\ currentEmotion = neutralEmotion
    /\ emotionStartTime = Num(0)
    /\ emotionEndTime = Num(0)
    /\ storeClock = 0
    /\ lastSetEmotion = [fn |-> "none"]

\* the services the constructor finds a directory for
ServiceIds == {"ml-backend", "speaches"}

NoChild == 0

\* new SYNServiceManager(), before startAll
ManagerInit ==
    /\ services = [serviceId \in ServiceIds |-> NoChild]
    /\ children = << >>
    /\ starts = << >>
    /\ stopAllCalled = FALSE

NoPromise == 0

\* EmotionMLDetector.getInstance(), before any init
DetectorInit ==
    /\ classifier = FALSE
    /\ initPromise = NoPromise
    /\ isLoading = FALSE
    /\ pipelines = << >>
    /\ loads = << >>

\* the objects of phoneme-map.ts that a lookup can return: NEUTRAL_POSE, which
\* is also the entry of SIL, the other entries, and the inherited properties
StaticPoses ==
    [o \in ((DOMAIN PHONEME_MAP \ {"SIL"}) \cup ObjectPrototypeKeys \cup {"NEUTRAL_POSE"}) |->
        IF o = "NEUTRAL_POSE" THEN NEUTRAL_POSE ELSE Lookup(o)]

\* a reference to the object at an index of heap, and one to a static object
HeapRef(index) == [static |-> FALSE, name |-> "", index |-> index]

StaticRef(name) == [static |-> TRUE, name |-> name, index |-> 0]

\* the two copies of NEUTRAL_POSE the constructor of the service makes
ObjectsInit ==
    /\ staticPoses = StaticPoses
    /\ heap = <<NEUTRAL_POSE, NEUTRAL_POSE>>
    /\ currentRef = HeapRef(1)
    /\ targetRef = HeapRef(2)

ComponentsInit ==
    /\ seenTts = [text |-> "", audioDuration |-> Num(0)]
    /\ lastIndex = 0
    /\ StoreInit
    /\ ManagerInit
    /\ DetectorInit
    /\ ObjectsInit

(***************************************************************************)
(* Initial state: a service constructed with the accurate provider.        *)
(***************************************************************************)
Init ==
    /\ timingProvider = "accurate"
    /\ fallbackProvider = NoProvider
    /\ useAccurateProvider = TRUE
    /\ currentPose = NEUTRAL_POSE
    /\ targetPose = NEUTRAL_POSE
    /\ playbackState = NoSession
    /\ isPaused = FALSE
    /\ calls = << >>
    /\ lastFulfilled = 0
    /\ returned = NEUTRAL_POSE
    /\ now = 0
    /\ ticks = 0
    /\ lastEvent = "none"
    /\ lastUpdate = "none"
    /\ thisNeutralThreshold = NEUTRAL_THRESHOLD
    /\ PluginInit
    /\ ComponentsInit
    /\ args = NoCall
    /\ result = NoCall

(***************************************************************************)
(* Operations of VBridgerService.                                          *)
(***************************************************************************)
setFallbackProvider(provider) ==
    /\ fallbackProvider' = provider
    /\ UNCHANGED <<timingProvider, useAccurateProvider, engineVars, calls,
                   lastFulfilled, returned, now, ticks, histVars>>
    /\ UNCHANGED pluginVars
    /\ UNCHANGED otherVars

useAccurateTiming ==
    /\ useAccurateProvider' =
           IF fallbackProvider # NoProvider THEN TRUE ELSE useAccurateProvider
    /\ UNCHANGED <<timingProvider, fallbackProvider, engineVars, calls,
                   lastFulfilled, returned, now, ticks, histVars>>
    /\ UNCHANGED pluginVars
    /\ UNCHANGED otherVars

\* useFallbackEstimation that also regenerates the timing of the held session
useFallbackEstimation_Retro ==
    /\ useAccurateProvider' =
           IF fallbackProvider # NoProvider THEN FALSE ELSE useAccurateProvider
    /\ playbackState' =
           IF fallbackProvider # NoProvider /\ ~playbackState.isNull
           THEN [playbackState EXCEPT
                    !.timedPhonemes = getTimedPhonemes(fallbackProvider, "mi")]
           ELSE playbackState
    /\ UNCHANGED <<timingProvider, fallbackProvider, currentPose, targetPose, isPaused,
                   calls, lastFulfilled, returned, now, ticks, histVars>>
    /\ UNCHANGED pluginVars
    /\ UNCHANGED otherVars

useFallbackEstimation ==
    /\ useAccurateProvider' =
           IF fallbackProvider # NoProvider THEN FALSE ELSE useAccurateProvider
    /\ UNCHANGED <<timingProvider, fallbackProvider, engineVars, calls,
                   lastFulfilled, returned, now, ticks, histVars>>
    /\ UNCHANGED pluginVars
    /\ UNCHANGED otherVars

pause ==
    /\ isPaused' = TRUE
    /\ UNCHANGED <<tierVars, currentPose, targetPose, playbackState, calls,
                   lastFulfilled, returned, now, ticks, histVars>>
    /\ UNCHANGED pluginVars
    /\ UNCHANGED otherVars

\* resume that restarts the timeline of a playing session at the clock reading
resume_Rebase ==
    /\ isPaused' = FALSE
    /\ playbackState' =
           IF PlayingOf(playbackState) /\ isPaused
           THEN [playbackState EXCEPT !.startTime = now]
           ELSE playbackState
    /\ UNCHANGED <<tierVars, currentPose, targetPose, calls,
                   lastFulfilled, returned, now, ticks, histVars>>
    /\ UNCHANGED pluginVars
    /\ UNCHANGED otherVars

resume ==
    /\ isPaused' = FALSE
    /\ UNCHANGED <<tierVars, currentPose, targetPose, playbackState, calls,
                   lastFulfilled, returned, now, ticks, histVars>>
    /\ UNCHANGED pluginVars
    /\ UNCHANGED otherVars

\* onTtsAudioReady that drops the held session as soon as it is called
onTtsAudioReadyCall_Eager(text, audioDuration) ==
    /\ Len(calls) < MaxCalls
    /\ calls' = Append(calls, [provider |-> ChosenProvider, text |-> text,
                               audioDuration |-> audioDuration, status |-> "pending"])
    /\ playbackState' = NoSession
    /\ UNCHANGED <<tierVars, currentPose, targetPose, isPaused, lastFulfilled, returned,
                   now, ticks, histVars>>
    /\ UNCHANGED pluginVars
    /\ UNCHANGED otherVars

\* onTtsAudioReady up to its await: the provider is chosen and asked
onTtsAudioReadyCall(text, audioDuration) ==
    /\ Len(calls) < MaxCalls
    /\ calls' = Append(calls, [provider |-> ChosenProvider, text |-> text,
                               audioDuration |-> audioDuration, status |-> "pending"])
    /\ UNCHANGED <<tierVars, engineVars, lastFulfilled, returned, now, ticks, histVars>>
    /\ UNCHANGED pluginVars
    /\ UNCHANGED otherVars

\* onTtsAudioReady whose result is installed only for the most recent call
onTtsAudioReadyResolve_CallOrder(i) ==
    /\ i \in 1..Len(calls)
    /\ calls[i].status = "pending"
    /\ playbackState' =
           IF i = Len(calls)
           THEN AudioPlaybackState(TRUE, now, calls[i].audioDuration,
                    getTimedPhonemes(calls[i].provider, calls[i].text))
           ELSE playbackState
    /\ calls' = [calls EXCEPT ![i].status = "fulfilled"]
    /\ lastFulfilled' = i
    /\ UNCHANGED <<tierVars, currentPose, targetPose, isPaused, returned, now, ticks,
                   histVars>>
    /\ UNCHANGED pluginVars
    /\ UNCHANGED otherVars

\* the provider's promise fulfils: the rest of onTtsAudioReady runs
onTtsAudioReadyResolve(i) ==
    /\ i \in 1..Len(calls)
    /\ calls[i].status = "pending"
    /\ playbackState' = AudioPlaybackState(TRUE, now, calls[i].audioDuration,
                            getTimedPhonemes(calls[i].provider, calls[i].text))
    /\ calls' = [calls EXCEPT ![i].status = "fulfilled"]
    /\ lastFulfilled' = i
    /\ UNCHANGED <<tierVars, currentPose, targetPose, isPaused, returned, now, ticks, histVars>>
    /\ UNCHANGED pluginVars
    /\ UNCHANGED otherVars

\* onTtsAudioReady that resets the session when the provider fails
onTtsAudioReadyReject_Clear(i) ==
    /\ i \in 1..Len(calls)
    /\ calls[i].status = "pending"
    /\ calls' = [calls EXCEPT ![i].status = "rejected"]
    /\ playbackState' = NoSession
    /\ UNCHANGED <<tierVars, currentPose, targetPose, isPaused, lastFulfilled, returned,
                   now, ticks, histVars>>
    /\ UNCHANGED pluginVars
    /\ UNCHANGED otherVars

\* the provider's promise rejects: the await throws out of onTtsAudioReady
onTtsAudioReadyReject(i) ==
    /\ i \in 1..Len(calls)
    /\ calls[i].status = "pending"
    /\ calls' = [calls EXCEPT ![i].status = "rejected"]
    /\ UNCHANGED <<tierVars, engineVars, lastFulfilled, returned, now, ticks, histVars>>
    /\ UNCHANGED pluginVars
    /\ UNCHANGED otherVars

\* onTtsAudioStart that makes up a session when none is held
onTtsAudioStart_Fabricate ==
    /\ playbackState' =
           IF ~playbackState.isNull
           THEN [playbackState EXCEPT !.startTime = now, !.isPlaying = TRUE]
           ELSE AudioPlaybackState(TRUE, now, Num(0), << >>)
    /\ lastEvent' = "start"
    /\ UNCHANGED <<tierVars, currentPose, targetPose, isPaused, calls,
                   lastFulfilled, returned, now, ticks, lastUpdate>>
    /\ UNCHANGED pluginVars
    /\ UNCHANGED otherVars

onTtsAudioStart ==
    /\ playbackState' =
           IF ~playbackState.isNull
           THEN [playbackState EXCEPT !.startTime = now, !.isPlaying = TRUE]
           ELSE playbackState
    /\ lastEvent' = "start"
    /\ UNCHANGED <<tierVars, currentPose, targetPose, isPaused, calls,
                   lastFulfilled, returned, now, ticks, lastUpdate>>
    /\ UNCHANGED pluginVars
    /\ UNCHANGED otherVars

onTtsAudioEnd ==
    /\ playbackState' = NoSession
    /\ lastEvent' = "end"
    /\ UNCHANGED <<tierVars, currentPose, targetPose, isPaused, calls,
                   lastFulfilled, returned, now, ticks, lastUpdate>>
    /\ UNCHANGED pluginVars
    /\ UNCHANGED otherVars

\* update without the early return for a paused service
update_IgnorePause(deltaTime) ==
    /\ ticks < MaxTicks
    /\ ticks' = ticks + 1
    /\ targetPose' = UpdateTarget(playbackState, now)
    /\ currentPose' = UpdateCurrent(currentPose, targetPose', playbackState, deltaTime)
    /\ returned' = currentPose'
    /\ lastUpdate' = IF isPaused THEN "paused" ELSE "smoothed"
    /\ UNCHANGED <<tierVars, playbackState, isPaused, calls, lastFulfilled, now,
                   lastEvent>>
    /\ UNCHANGED pluginVars
    /\ UNCHANGED otherVars

update(deltaTime) ==
    /\ ticks < MaxTicks
    /\ ticks' = ticks + 1
    /\ IF isPaused
       THEN /\ returned' = currentPose
            /\ lastUpdate' = "paused"
            /\ UNCHANGED <<currentPose, targetPose>>
       ELSE /\ targetPose' = UpdateTarget(playbackState, now)
            /\ currentPose' = UpdateCurrent(currentPose, targetPose', playbackState,
                                            deltaTime)
            /\ returned' = currentPose'
            /\ lastUpdate' = "smoothed"
    /\ UNCHANGED <<tierVars, playbackState, isPaused, calls, lastFulfilled, now,
                   lastEvent>>
    /\ UNCHANGED pluginVars
    /\ UNCHANGED otherVars

\* time passes on the performance.now() clock
AdvanceClock ==
    /\ \E d \in ClockSteps : now + d <= MaxNow /\ now' = now + d
    /\ UNCHANGED <<tierVars, engineVars, calls, lastFulfilled, returned, ticks, histVars>>
    /\ UNCHANGED pluginVars
    /\ UNCHANGED otherVars

Next ==
    \/ \E p \in FallbackProviders : setFallbackProvider(p)
    \/ useAccurateTiming
    \/ useFallbackEstimation
    \/ pause
    \/ resume
    \/ \E text \in Texts, d \in AudioDurations : onTtsAudioReadyCall(text, d)
    \/ \E i \in 1..MaxCalls : onTtsAudioReadyResolve(i)
    \/ \E i \in 1..MaxCalls : onTtsAudioReadyReject(i)
    \/ onTtsAudioStart
    \/ onTtsAudioEnd
    \/ \E dt \in DeltaTimes : update(dt)
    \/ AdvanceClock

Spec == Init /\ [][Next]_vars

(***************************************************************************)
(* Steps, recognised from the pair of states.                              *)
(***************************************************************************)
CallStep == Len(calls') = Len(calls) + 1

FulfilStep(i) ==
    i \in 1..Len(calls) /\ calls[i].status = "pending" /\ calls'[i].status = "fulfilled"

RejectStep(i) ==
    i \in 1..Len(calls) /\ calls[i].status = "pending" /\ calls'[i].status = "rejected"

UpdateStep == ticks' = ticks + 1

SomePending == \E i \in 1..Len(calls) : calls[i].status = "pending"

ResultOf(i) == getTimedPhonemes(calls[i].provider, calls[i].text)

(***************************************************************************)
(* Claims.                                                                 *)
(***************************************************************************)

\* C1: when onTtsAudioReady resolves while no session is held, the new session
\* is armed but not playing (isActive() is false, so ticks target neutral), and
\* a step that makes the engine playing is an onTtsAudioStart step.
C1_ArmedNotPlaying ==
    [][ /\ \A i \in 1..MaxCalls :
              (FulfilStep(i) /\ playbackState.isNull)
                  => (~playbackState'.isNull /\ ~PlayingOf(playbackState'))
        /\ (~isActive /\ PlayingOf(playbackState')) => onTtsAudioStart ]_vars

\* C2: when onTtsAudioReady resolves while a started session is playing, the
\* session keeps its phoneme sequence and its start instant.
C2_PlayingNotReplaced ==
    [][ \A i \in 1..MaxCalls :
           (FulfilStep(i) /\ lastEvent = "start" /\ PlayingOf(playbackState))
               => /\ ~playbackState'.isNull
                  /\ playbackState'.timedPhonemes = playbackState.timedPhonemes
                  /\ playbackState'.startTime = playbackState.startTime ]_vars

\* C3: from onTtsAudioEnd until the next onTtsAudioStart the engine is not
\* active (ticks target neutral), whatever onTtsAudioReady calls resolve.
C3_InactiveAfterEnd == lastEvent = "end" => ~isActive

\* C4: onTtsAudioStart and onTtsAudioEnd called while no session is held change
\* nothing of the engine: no session appears, poses, flags and calls are as before.
C4_NoSessionNoOp ==
    [][ (playbackState.isNull /\ (onTtsAudioStart \/ onTtsAudioEnd))
            => /\ playbackState'.isNull
               /\ UNCHANGED <<tierVars, currentPose, targetPose, isPaused, calls,
                              lastFulfilled, returned>> ]_vars

\* C4 witness: onTtsAudioStart was called before any onTtsAudioReady resolved
\* and the engine is still idle.
C4_Witness ==
    /\ lastEvent = "start"
    /\ lastFulfilled = 0
    /\ playbackState.isNull
    /\ currentPose = NEUTRAL_POSE

\* C5: a provider failure during onTtsAudioReady leaves the session and both
\* poses exactly as they were.
C5_RejectKeepsSession ==
    [][ \A i \in 1..MaxCalls :
           RejectStep(i) => UNCHANGED <<playbackState, currentPose, targetPose>> ]_vars

\* C5 witness: a call has failed and the started, playing session is still held.
C5_Witness ==
    /\ \E i \in 1..Len(calls) : calls[i].status = "rejected"
    /\ lastEvent = "start"
    /\ PlayingOf(playbackState)
    /\ Len(playbackState.timedPhonemes) > 0

\* C6: no onTtsAudioReady call ever rejects to its caller.
C6_NeverRejects == \A i \in 1..Len(calls) : calls[i].status # "rejected"

\* C7: a held session is the result of the call that resolved last, whatever
\* the order in which the calls were made.
C7_LastResolvedWins ==
    ~playbackState.isNull
        => /\ lastFulfilled \in 1..Len(calls)
           /\ playbackState.timedPhonemes = ResultOf(lastFulfilled)
           /\ playbackState.audioDuration = calls[lastFulfilled].audioDuration

\* C7 witness: two calls with different results were in flight together, the
\* second resolved first, and the session holds the result of the first.
C7_Witness ==
    /\ Len(calls) >= 2
    /\ calls[1].status = "fulfilled"
    /\ calls[2].status = "fulfilled"
    /\ lastFulfilled = 1
    /\ ResultOf(1) # ResultOf(2)
    /\ ~playbackState.isNull
    /\ playbackState.timedPhonemes = ResultOf(1)

\* C8: calling onTtsAudioReady changes no engine state before it resolves, and
\* a tick made while a call is outstanding computes its target from the
\* session held before the call.
C8_PendingCallInert ==
    [][ /\ CallStep => UNCHANGED <<engineVars, tierVars, returned, lastFulfilled>>
        /\ (UpdateStep /\ SomePending /\ ~isPaused)
               => /\ targetPose' = UpdateTarget(playbackState, now)
                  /\ UNCHANGED playbackState ]_vars

\* C8 witness: a call is outstanding and the last tick drove the target from
\* the playing session.
C8_Witness ==
    /\ SomePending
    /\ lastUpdate = "smoothed"
    /\ PlayingOf(playbackState)
    /\ targetPose # NEUTRAL_POSE
    /\ targetPose = UpdateTarget(playbackState, now)

\* C9: a step that changes the tier selector or the fallback provider leaves
\* the session, the outstanding calls and the poses as they were.
C9_TierSwitchKeepsSession ==
    [][ (useAccurateProvider' # useAccurateProvider
            \/ fallbackProvider' # fallbackProvider)
            => UNCHANGED <<playbackState, calls, currentPose, targetPose>> ]_vars

\* C9 witness: the selector is on fallback while the session still holds the
\* sequence the accurate provider produced.
C9_Witness ==
    /\ ~useAccurateProvider
    /\ lastEvent = "start"
    /\ PlayingOf(playbackState)
    /\ lastFulfilled # 0
    /\ calls[lastFulfilled].provider = "accurate"
    /\ playbackState.timedPhonemes = getTimedPhonemes("accurate", "mi")

\* C10: update() on a paused service returns the current pose and changes
\* neither the current nor the target pose.
C10_PausedTickFrozen ==
    [][ (isPaused /\ UpdateStep)
            => /\ returned' = currentPose
               /\ UNCHANGED <<currentPose, targetPose>> ]_vars

\* C10 witness: the last update() ran paused on a playing session whose
\* target would not have been neutral.
C10_Witness ==
    /\ isPaused
    /\ lastUpdate = "paused"
    /\ PlayingOf(playbackState)
    /\ UpdateTarget(playbackState, now) # NEUTRAL_POSE
    /\ currentPose = NEUTRAL_POSE


(***************************************************************************)
(* The phoneme lookup and the target pose, over sessions of every shape:   *)
(* a playing session started at time 0 whose sequence and clock reading    *)
(* are drawn from the sets below, ticked by update().                      *)
(***************************************************************************)
LookupSequences ==
    { getTimedPhonemes(p, text) : p \in Providers, text \in {"mi", "other"} }
    \cup { <<TP("h", Rat(1, 10), Rat(1, 4))>>,
           <<TP("m", Num(0), Rat(3, 10)), TP("i", Rat(1, 10), Rat(3, 20))>>,
           <<TP("constructor", Num(0), Rat(1, 10)), TP("i", Rat(1, 10), Rat(1, 4))>>,
           <<TP("i", Rat(1, 10), Rat(1, 4)), TP("m", Num(0), Rat(1, 10))>>,
           <<TP("e<026A>", Num(0), Rat(1, 10)), TP("A", Rat(1, 10), Rat(1, 4))>>,
           <<TP("I", Num(0), Rat(1, 10)), TP("a<026A>", Rat(1, 10), Rat(1, 4))>> }

\* readings of performance.now(), in milliseconds
LookupTimes == {0, 25, 50, 75, 100, 125, 150, 200, 250, 300}

LookupInit ==
    /\ timingProvider = "accurate"
    /\ fallbackProvider = NoProvider
    /\ useAccurateProvider = TRUE
    /\ currentPose = NEUTRAL_POSE
    /\ targetPose = NEUTRAL_POSE
    /\ \E timedPhonemes \in LookupSequences :
          playbackState = AudioPlaybackState(TRUE, 0, Rat(1, 4), timedPhonemes)
    /\ isPaused = FALSE
    /\ calls = << >>
    /\ lastFulfilled = 0
    /\ returned = NEUTRAL_POSE
    /\ now \in LookupTimes
    /\ ticks = 0
    /\ lastEvent = "start"
    /\ lastUpdate = "none"
    /\ thisNeutralThreshold \in NeutralThresholds
    /\ PluginInit
    /\ ComponentsInit
    /\ args = NoCall
    /\ result = NoCall

LookupNext == \E dt \in DeltaTimes : update(dt)

SpecLookup == LookupInit /\ [][LookupNext]_vars

\* seconds of the session elapsed at the clock reading
Elapsed == Rat(now - playbackState.startTime, 1000)

Phonemes == playbackState.timedPhonemes

Found == findActivePhonemes(Elapsed, Phonemes)

Ordered(timedPhonemes) ==
    \A i \in 1..Len(timedPhonemes) - 1 :
        ~Gt(timedPhonemes[i].startTime, timedPhonemes[i + 1].startTime)

Ticked == lastUpdate = "smoothed"

\* C14: in a playing session with a non-empty sequence read before the first
\* phoneme's startTime, the lookup gives no current phoneme, the first phoneme
\* as next, and the tick's target is the neutral pose.
C14_BeforeFirst ==
    (isActive /\ Len(Phonemes) > 0 /\ Lt(Elapsed, Phonemes[1].startTime))
        => /\ Found.current = NoPhoneme
           /\ Found.next = Some(Phonemes[1])
           /\ Ticked => targetPose = NEUTRAL_POSE

C14_Witness ==
    /\ isActive /\ Len(Phonemes) > 0 /\ Lt(Elapsed, Phonemes[1].startTime)
    /\ Ticked

PastEveryEnd == \A i \in 1..Len(Phonemes) : Ge(Elapsed, Phonemes[i].endTime)

Holding ==
    { i \in 1..Len(Phonemes) :
        Ge(Elapsed, Phonemes[i].startTime) /\ Lt(Elapsed, Phonemes[i].endTime) }

\* indices of the phonemes that start after the elapsed time
Later == { i \in 1..Len(Phonemes) : Lt(Elapsed, Phonemes[i].startTime) }

Min(S) == CHOOSE i \in S : \A j \in S : i <= j

InWindow == isActive /\ Ordered(Phonemes) /\ Holding # {}

InGap == isActive /\ Ordered(Phonemes) /\ Holding = {} /\ Later # {} /\ Min(Later) > 1

\* C16: for a sequence ordered by startTime, when some window holds the
\* elapsed time, current is the first such phoneme in scan order and next its
\* successor (none if it is the last); when the elapsed time lies in a gap,
\* current is the phoneme before the gap and next the one after it.
C16_WindowAndGap ==
    /\ InWindow => /\ Found.current = Some(Phonemes[Min(Holding)])
                   /\ Found.next = At(Phonemes, Min(Holding) + 1)
    /\ InGap => /\ Found.current = Some(Phonemes[Min(Later) - 1])
                /\ Found.next = Some(Phonemes[Min(Later)])

C16_Witness ==
    /\ InWindow /\ Min(Holding) = 1 /\ Len(Phonemes) > 1
    /\ Ticked

BothExist == isActive /\ ~Found.current.isNull /\ ~Found.next.isNull

\* the interpolation parameter of the claim
BlendT ==
    easeInOutQuad(Div(Sub(Elapsed, Found.current.startTime),
                      Sub(Found.next.startTime, Found.current.startTime)))

\* the sequence m 0.0-0.1, i 0.1-0.25 read at 0.05 s
IsExample ==
    /\ Phonemes = <<TP("m", Num(0), Rat(1, 10)), TP("i", Rat(1, 10), Rat(1, 4))>>
    /\ Elapsed = Rat(1, 20)

\* C17: when both current and next exist, the tick's target is the blend of
\* their poses at t = easeInOutQuad((elapsed - current.startTime) /
\* (next.startTime - current.startTime)); for m 0.0-0.1, i 0.1-0.25 at 0.05 s
\* the parameter is easeInOutQuad(0.5) = 0.5 and the target is the midpoint
\* of the poses of m and i.
C17_BlendOfCurrentAndNext ==
    /\ (BothExist /\ Ticked)
          => targetPose = lerpPose(getPoseForPhoneme(Found.current.phoneme),
                                   getPoseForPhoneme(Found.next.phoneme), BlendT)
    /\ IsExample
          => /\ BlendT = Rat(1, 2)
             /\ Ticked => targetPose =
                  [c \in Channels |->
                      Div(Add(PHONEME_MAP["m"][c], PHONEME_MAP["i"][c]), Num(2))]

C17_Witness == IsExample /\ BothExist /\ Ticked

\* C18: the target computation never divides by zero: whenever
\* next.startTime - current.startTime is 0 the tick's target is current's pose
\* verbatim.
C18_NoDivisionByZero ==
    (BothExist /\ Found.next.startTime = Found.current.startTime /\ Ticked) =>
        targetPose = getPoseForPhoneme(Found.current.phoneme)

\* C20: for every symbol of the sequence that is not a key of PHONEME_MAP,
\* the exported lookup and the engine's lookup both give the neutral pose.
C20_LookupTotal ==
    \A i \in 1..Len(Phonemes) :
        Phonemes[i].phoneme \notin DOMAIN PHONEME_MAP
            => /\ MapGetPoseForPhoneme(Phonemes[i].phoneme) = NEUTRAL_POSE
               /\ getPoseForPhoneme(Phonemes[i].phoneme) = NEUTRAL_POSE

(***************************************************************************)
(* The motion-manager plugin: the function the host calls every frame,     *)
(* the host's refs it watches, and the promise callbacks it registers.     *)
(***************************************************************************)
MaxFrames == 3

\* the texts the host speaks: for "other" the accurate provider has no phonemes
PluginTexts == {"mi", "other"}

VBRIDGER_PARAM_NAMES ==
    [MOUTH_OPEN_Y |-> "ParamMouthOpenY", JAW_OPEN |-> "ParamJawOpen",
     MOUTH_FORM |-> "ParamMouthForm", MOUTH_SHRUG |-> "ParamMouthShrug",
     MOUTH_FUNNEL |-> "ParamMouthFunnel", MOUTH_PUCKER_WIDEN |-> "ParamMouthPuckerWiden",
     MOUTH_PRESS_LIP_OPEN |-> "ParamMouthPressLipOpen", MOUTH_X |-> "ParamMouthX",
     CHEEK_PUFF_C |-> "ParamCheekPuffC"]

SetParameterValueById(id, value) == [id |-> id, value |-> value]

\* the calls that also write a parameter of the eyes
Writes_Extra(pose) ==
    <<SetParameterValueById(VBRIDGER_PARAM_NAMES.MOUTH_OPEN_Y, pose.mouthOpenY),
      SetParameterValueById(VBRIDGER_PARAM_NAMES.JAW_OPEN, pose.jawOpen),
      SetParameterValueById(VBRIDGER_PARAM_NAMES.MOUTH_FORM, pose.mouthForm),
      SetParameterValueById(VBRIDGER_PARAM_NAMES.MOUTH_SHRUG, pose.mouthShrug),
      SetParameterValueById(VBRIDGER_PARAM_NAMES.MOUTH_FUNNEL, pose.mouthFunnel),
      SetParameterValueById(VBRIDGER_PARAM_NAMES.MOUTH_PUCKER_WIDEN, pose.mouthPuckerWiden),
      SetParameterValueById(VBRIDGER_PARAM_NAMES.MOUTH_PRESS_LIP_OPEN, pose.mouthPressLipOpen),
      SetParameterValueById(VBRIDGER_PARAM_NAMES.MOUTH_X, pose.mouthX),
      SetParameterValueById(VBRIDGER_PARAM_NAMES.CHEEK_PUFF_C, pose.cheekPuffC),
      SetParameterValueById("ParamEyeLOpen", pose.mouthOpenY)>>

\* the nine ctx.model.setParameterValueById calls, in order
Writes(pose) ==
    <<SetParameterValueById(VBRIDGER_PARAM_NAMES.MOUTH_OPEN_Y, pose.mouthOpenY),
      SetParameterValueById(VBRIDGER_PARAM_NAMES.JAW_OPEN, pose.jawOpen),
      SetParameterValueById(VBRIDGER_PARAM_NAMES.MOUTH_FORM, pose.mouthForm),
      SetParameterValueById(VBRIDGER_PARAM_NAMES.MOUTH_SHRUG, pose.mouthShrug),
      SetParameterValueById(VBRIDGER_PARAM_NAMES.MOUTH_FUNNEL, pose.mouthFunnel),
      SetParameterValueById(VBRIDGER_PARAM_NAMES.MOUTH_PUCKER_WIDEN, pose.mouthPuckerWiden),
      SetParameterValueById(VBRIDGER_PARAM_NAMES.MOUTH_PRESS_LIP_OPEN, pose.mouthPressLipOpen),
      SetParameterValueById(VBRIDGER_PARAM_NAMES.MOUTH_X, pose.mouthX),
      SetParameterValueById(VBRIDGER_PARAM_NAMES.CHEEK_PUFF_C, pose.cheekPuffC)>>

\* deltaTime of the first frames, while lastUpdateTime is still 0
FallbackDeltaTime == Rat(16, 1000)

\* the session after vbridger.onTtsAudioStart() at clock reading t
StartedSession(ps, t) ==
    IF ~ps.isNull THEN [ps EXCEPT !.startTime = t, !.isPlaying = TRUE] ELSE ps

\* what the frame does once it is past its early returns: TTS changes are
\* detected and passed to the service, the service is ticked, and the mouth
\* is written when the service was active at the start of the frame; block is
\* the set of host-blocking calls (stopAllMotions, markHandled) the frame makes
FrameBody(active, deltaTime, block) ==
    LET changed == ttsText # lastTtsText \/ ttsAudioDuration # lastTtsAudioDuration
        ready   == changed /\ ttsText # "" /\ Gt(ttsAudioDuration, Num(0))
        started == ttsIsPlaying /\ ~lastTtsIsPlaying /\ audioReady
        ended   == ~ttsIsPlaying /\ lastTtsIsPlaying
        ps1     == IF started THEN StartedSession(playbackState, now) ELSE playbackState
        ps2     == IF ended THEN NoSession ELSE ps1
        target  == IF isPaused THEN targetPose ELSE UpdateTarget(ps2, now)
        pose    == IF isPaused THEN currentPose
                   ELSE UpdateCurrent(currentPose, target, ps2, deltaTime)
    IN  /\ ready => Len(calls) < MaxCalls
        /\ calls' = IF ready
                    THEN Append(calls, [provider |-> ChosenProvider, text |-> ttsText,
                                        audioDuration |-> ttsAudioDuration,
                                        status |-> "pending"])
                    ELSE calls
        /\ lastTtsText' = IF ready THEN ttsText ELSE lastTtsText
        /\ lastTtsAudioDuration' = IF ready THEN ttsAudioDuration ELSE lastTtsAudioDuration
        /\ audioReady' = IF ended THEN FALSE ELSE audioReady
        /\ lastTtsIsPlaying' = ttsIsPlaying
        /\ lastEvent' = IF started THEN "start" ELSE IF ended THEN "end" ELSE lastEvent
        /\ playbackState' = ps2
        /\ targetPose' = target
        /\ currentPose' = pose
        /\ returned' = pose
        /\ lastUpdate' = IF isPaused THEN "paused" ELSE "smoothed"
        /\ frame' = [ran |-> TRUE, isActive |-> active, playing |-> PlayingOf(ps2),
                     block |-> IF active THEN block ELSE {},
                     writes |-> IF active THEN Writes(pose) ELSE << >>]

\* the plugin function that also stops the host's motions while active
Frame_StopMotions(enabled, handled, isIdleMotion) ==
    /\ frames < MaxFrames
    /\ frames' = frames + 1
    /\ lastUpdateTime' = now
    /\ IF ~enabled \/ handled \/ (~isActive /\ ~isIdleMotion)
       THEN /\ frame' = NoFrame
            /\ UNCHANGED <<engineVars, calls, returned, histVars, lastTtsText,
                           lastTtsAudioDuration, lastTtsIsPlaying, audioReady>>
       ELSE FrameBody(isActive,
                      IF lastUpdateTime > 0 THEN Rat(now - lastUpdateTime, 1000)
                      ELSE FallbackDeltaTime,
                      {"stopAllMotions", "markHandled"})
    /\ UNCHANGED <<tierVars, isPaused, lastFulfilled, now, ticks, hostVars>>
    /\ UNCHANGED otherVars

\* the plugin function, called by the host once per frame
Frame(enabled, handled, isIdleMotion) ==
    /\ frames < MaxFrames
    /\ frames' = frames + 1
    /\ lastUpdateTime' = now
    /\ IF ~enabled \/ handled \/ (~isActive /\ ~isIdleMotion)
       THEN /\ frame' = NoFrame
            /\ UNCHANGED <<engineVars, calls, returned, histVars, lastTtsText,
                           lastTtsAudioDuration, lastTtsIsPlaying, audioReady>>
       ELSE FrameBody(isActive,
                      IF lastUpdateTime > 0 THEN Rat(now - lastUpdateTime, 1000)
                      ELSE FallbackDeltaTime,
                      {})
    /\ UNCHANGED <<tierVars, isPaused, lastFulfilled, now, ticks, hostVars>>
    /\ UNCHANGED otherVars

\* the promise of a call made by the plugin fulfils: the rest of
\* onTtsAudioReady runs, then the plugin's then-callback
PluginReadyResolve(i) ==
    /\ i \in 1..Len(calls)
    /\ calls[i].status = "pending"
    /\ playbackState' = AudioPlaybackState(TRUE, now, calls[i].audioDuration,
                            getTimedPhonemes(calls[i].provider, calls[i].text))
    /\ calls' = [calls EXCEPT ![i].status = "fulfilled"]
    /\ lastFulfilled' = i
    /\ audioReady' = TRUE
    /\ UNCHANGED <<tierVars, currentPose, targetPose, isPaused, returned, now, ticks,
                   histVars, hostVars, lastTtsText, lastTtsAudioDuration,
                   lastTtsIsPlaying, lastUpdateTime, frames, frame>>
    /\ UNCHANGED otherVars

\* the promise rejects: the plugin's catch-callback logs the error
PluginReadyReject(i) ==
    /\ i \in 1..Len(calls)
    /\ calls[i].status = "pending"
    /\ calls' = [calls EXCEPT ![i].status = "rejected"]
    /\ UNCHANGED <<tierVars, engineVars, lastFulfilled, returned, now, ticks, histVars,
                   pluginVars>>
    /\ UNCHANGED otherVars

\* the host announces an utterance: ttsText.value and ttsAudioDuration.value
HostSpeak(text, audioDuration) ==
    /\ ttsText # text \/ ttsAudioDuration # audioDuration
    /\ ttsText' = text
    /\ ttsAudioDuration' = audioDuration
    /\ UNCHANGED <<tierVars, engineVars, calls, lastFulfilled, returned, now, ticks,
                   histVars, ttsIsPlaying, closureVars, frames, frame>>
    /\ UNCHANGED otherVars

\* ttsIsPlaying.value = true
HostPlay ==
    /\ ~ttsIsPlaying
    /\ ttsIsPlaying' = TRUE
    /\ UNCHANGED <<tierVars, engineVars, calls, lastFulfilled, returned, now, ticks,
                   histVars, ttsText, ttsAudioDuration, closureVars, frames, frame>>
    /\ UNCHANGED otherVars

\* ttsIsPlaying.value = false
HostStop ==
    /\ ttsIsPlaying
    /\ ttsIsPlaying' = FALSE
    /\ UNCHANGED <<tierVars, engineVars, calls, lastFulfilled, returned, now, ticks,
                   histVars, ttsText, ttsAudioDuration, closureVars, frames, frame>>
    /\ UNCHANGED otherVars

PluginNext ==
    \/ \E text \in PluginTexts, d \in AudioDurations : HostSpeak(text, d)
    \/ HostPlay
    \/ HostStop
    \/ \E enabled \in BOOLEAN, handled \in BOOLEAN, isIdleMotion \in BOOLEAN :
          Frame(enabled, handled, isIdleMotion)
    \/ \E i \in 1..MaxCalls : PluginReadyResolve(i)
    \/ \E i \in 1..MaxCalls : PluginReadyReject(i)
    \/ AdvanceClock

SpecPlugin == Init /\ [][PluginNext]_vars

\* C11: the adapter calls setParameterValueById only if the engine is Playing
\* at the moment of the write; in a frame in which the engine is not Playing
\* (as once onTtsAudioEnd has been delivered in that frame) nothing is written.
C11_WritesOnlyWhilePlaying == frame.writes # << >> => frame.playing

C13_OnlyMouthParams ==
    \A k \in 1..Len(frame.writes) :
        frame.writes[k].id \in
            {"ParamMouthOpenY", "ParamJawOpen", "ParamMouthForm", "ParamMouthShrug",
             "ParamMouthFunnel", "ParamMouthPuckerWiden", "ParamMouthPressLipOpen",
             "ParamMouthX", "ParamCheekPuffC"}

C13_Witness == Len(frame.writes) = 9 /\ lastEvent = "end"

\* C19: a session prepared from an empty phoneme list is no session: once
\* onTtsAudioReady has resolved with it (and after onTtsAudioStart), isActive()
\* is false and every tick's target is the neutral pose.
C19_EmptyListIsNoSession ==
    (~playbackState.isNull /\ playbackState.timedPhonemes = << >>)
       => /\ ~isActive
          /\ Ticked => targetPose = NEUTRAL_POSE

\* the diphthong symbols and their one-letter shorthands
Aliases ==
    { <<"e<026A>", "A">>, <<"a<026A>", "I">>, <<"a<028A>", "W">>,
      <<"<0254><026A>", "Y">>, <<"o<028A>", "O">> }

\* C21: each aliased pair of the pose table resolves to the same pose in all
\* nine channels, by the exported lookup and by the service's own; a tick
\* between the two symbols of a pair targets that pose.
C21_AliasesAgree ==
    /\ \A pair \in Aliases :
          /\ DOMAIN MapGetPoseForPhoneme(pair[1]) = Channels
          /\ MapGetPoseForPhoneme(pair[1]) # NEUTRAL_POSE
          /\ \A c \in Channels :
                /\ MapGetPoseForPhoneme(pair[1])[c] = MapGetPoseForPhoneme(pair[2])[c]
                /\ getPoseForPhoneme(pair[1])[c] = getPoseForPhoneme(pair[2])[c]
    /\ (BothExist /\ Ticked
           /\ (<<Found.current.phoneme, Found.next.phoneme>> \in Aliases
                  \/ <<Found.next.phoneme, Found.current.phoneme>> \in Aliases))
          => targetPose = PHONEME_MAP[Found.current.phoneme]

C21_Witness ==
    /\ BothExist /\ Ticked
    /\ <<Found.current.phoneme, Found.next.phoneme>> \in Aliases
    /\ targetPose = PHONEME_MAP["A"]

\* Math.abs
MathAbs(x) == IF Lt(x, Num(0)) THEN Neg(x) ELSE x

\* posesEqual(a, b, tolerance)
posesEqual(a, b, tolerance) ==
    \A c \in Channels : Lt(MathAbs(Sub(Chan(a, c), Chan(b, c))), tolerance)

\* C22: every channel of currentPose is a number, never NaN, within its
\* nominal range.
C22_PoseInRange ==
    \A c \in Channels :
        LET low == IF c \in {"mouthOpenY", "jawOpen", "mouthShrug", "mouthFunnel",
                             "cheekPuffC"}
                   THEN Num(0) ELSE Num(-1)
        IN  /\ ~IsNaN(currentPose[c])
            /\ Ge(currentPose[c], low)
            /\ Ge(Num(1), currentPose[c])

(***************************************************************************)
(* Settling: a session of any shape, then onTtsAudioEnd at some point and  *)
(* a host that never stops calling update() with a positive frame time.    *)
(***************************************************************************)
\* update(), in a run whose calls are not counted
updateUncounted(deltaTime) ==
    /\ IF isPaused
       THEN /\ returned' = currentPose
            /\ lastUpdate' = "paused"
            /\ UNCHANGED <<currentPose, targetPose>>
       ELSE LET target == UpdateTarget(playbackState, now)
                current == UpdateCurrent(currentPose, target, playbackState, deltaTime)
            IN  /\ targetPose' = target
                /\ currentPose' = current
                /\ returned' = current
                /\ lastUpdate' = "smoothed"
    /\ UNCHANGED <<tierVars, playbackState, isPaused, calls, lastFulfilled, now, ticks,
                   lastEvent, pluginVars, otherVars>>

SettleNext ==
    \/ updateUncounted(Rat(1, 10))
    \/ onTtsAudioEnd

SpecSettle ==
    /\ LookupInit
    /\ [][SettleNext]_vars
    /\ WF_vars(updateUncounted(Rat(1, 10)))

\* C23: after onTtsAudioEnd, with unpaused ticks of positive frame time
\* arriving for ever and no new session, currentPose eventually is within
\* 0.001 of the neutral pose in every channel and stays so.
C23_SettlesAtNeutral ==
    [](playbackState = NoSession
          => <>[]posesEqual(currentPose, NEUTRAL_POSE, Rat(1, 1000)))

\* C29: onTtsAudioReady picks its provider when it is called: the primary
\* provider when the selector says accurate, the fallback provider when it
\* says fallback (which needs a fallback provider); without a fallback
\* provider no step changes the selector; and the provider of a call in flight
\* is the one its result comes from, whatever the selector does meanwhile.
C29_ProviderChosenAtCall ==
    [][ /\ CallStep =>
            /\ calls'[Len(calls')].provider =
                   IF useAccurateProvider THEN timingProvider ELSE fallbackProvider
            /\ calls'[Len(calls')].provider # NoProvider
        /\ fallbackProvider = NoProvider =>
            /\ useAccurateProvider' = useAccurateProvider
            /\ CallStep => calls'[Len(calls')].provider = timingProvider
        /\ \A i \in 1..Len(calls) :
            /\ calls'[i].provider = calls[i].provider
            /\ FulfilStep(i) =>
                   playbackState'.timedPhonemes =
                       getTimedPhonemes(calls[i].provider, calls[i].text) ]_vars

C29_Witness ==
    /\ lastFulfilled = 1
    /\ calls[1].provider = "accurate"
    /\ ~useAccurateProvider
    /\ fallbackProvider = "estimate"
    /\ playbackState = AudioPlaybackState(TRUE, now, calls[1].audioDuration,
                                          getTimedPhonemes("accurate", calls[1].text))

\* C30: the cheek channel of a tick follows the threshold the service was
\* built with: approach when the target's cheek value exceeds
\* this.neutralThreshold, decay toward 0 otherwise.
C30_ConfiguredThresholdUsed ==
    [][(UpdateStep /\ ~isPaused) =>
          \E dt \in DeltaTimes :
              currentPose'.cheekPuffC =
                  smoothPoseToTarget(currentPose, targetPose',
                      IF isActive THEN Num(SMOOTHING_FACTOR) ELSE Num(NEUTRAL_RETURN_FACTOR),
                      dt, Num(CHEEK_PUFF_DECAY_FACTOR), thisNeutralThreshold).cheekPuffC]_vars

(***************************************************************************)
(* The interpolation functions on their own, computed in binary64 as       *)
(* JavaScript computes them: one call with arguments drawn from binary64   *)
(* values, then its result.                                                *)
(***************************************************************************)
\* Math.max(0, Math.min(1, t))
Clamp64(t0) ==
    LET Min1(t) == IF IsNaN(t) THEN NaN ELSE IF DLt(t, Num(1)) THEN t ELSE Num(1)
        Max0(m) == IF IsNaN(m) THEN NaN ELSE IF DLt(Num(0), m) THEN m ELSE Num(0)
    IN  CHOOSE v \in {Max0(m) : m \in {Min1(t) : t \in {t0}}} : TRUE

\* an easing that only accelerates
easeInOutQuad64_EaseIn(t00) ==
    CHOOSE v \in {DMul(t, t) : t \in {Clamp64(t00)}} : TRUE

easeInOutQuad64(t00) ==
    LET Out(u) == DAdd(Num(1), Neg(DDiv(DMul(u, u), Num(2))))
        Ease(t) ==
            IF DLt(t, Rat(1, 2)) THEN DMul(DMul(Num(2), t), t)
            ELSE CHOOSE v \in {Out(u) : u \in {DAdd(DMul(Num(-2), t), Num(2))}} : TRUE
    IN  CHOOSE v \in {Ease(t) : t \in {Clamp64(t00)}} : TRUE

lerp64(a0, b0, t00) ==
    LET Once(a, b, t0) == DAdd(a, DMul(DAdd(b, Neg(a)), Clamp64(t0)))
    IN  CHOOSE v \in {Once(a, b, t0) : a \in {a0}, b \in {b0}, t0 \in {t00}} : TRUE

lerpPose64(a0, b0, t00) ==
    LET Once(a, b, t) == [c \in Channels |-> lerp64(Chan(a, c), Chan(b, c), t)]
    IN  CHOOSE v \in {Once(a, b, t) : a \in {a0}, b \in {b0}, t \in {Clamp64(t00)}} : TRUE

\* smoothPoseToTarget with the cheek channel smoothed like the other eight
smoothPoseToTarget64_PlainCheek(current0, target0, smoothFactor0, deltaTime0, cheekPuffDecayFactor0, neutralThreshold0) ==
    LET Once(current, target, factor) ==
            [c \in Channels |-> lerp64(Chan(current, c), Chan(target, c), factor)]
    IN  CHOOSE v \in {Once(current, target, factor) :
                      current \in {current0}, target \in {target0},
                      factor \in {DMul(smoothFactor0, deltaTime0)}} : TRUE

smoothPoseToTarget64(current0, target0, smoothFactor0, deltaTime0, cheekPuffDecayFactor0, neutralThreshold0) ==
    LET Once(current, target, smoothFactor, deltaTime, factor) ==
            LET newCheekPuff ==
                    IF DLt(neutralThreshold0, Chan(target, "cheekPuffC"))
                    THEN lerp64(Chan(current, "cheekPuffC"), Chan(target, "cheekPuffC"), factor)
                    ELSE lerp64(Chan(current, "cheekPuffC"), Num(0),
                                DMul(IF cheekPuffDecayFactor0 = NoNumber THEN smoothFactor
                                     ELSE cheekPuffDecayFactor0, deltaTime))
            IN  [c \in Channels |->
                    IF c = "cheekPuffC" THEN newCheekPuff
                    ELSE lerp64(Chan(current, c), Chan(target, c), factor)]
    IN  CHOOSE v \in {Once(current, target, smoothFactor, deltaTime, factor) :
                      current \in {current0}, target \in {target0},
                      smoothFactor \in {smoothFactor0}, deltaTime \in {deltaTime0},
                      factor \in {DMul(smoothFactor0, deltaTime0)}} : TRUE

\* the binary64 value nearest n/d
Dbl(n, d) == ToDouble(Rat(n, d))

DPose(p) == [c \in Channels |-> ToDouble(p[c])]

\* x and y are the same number
Eq(x, y) == ~IsNaN(x) /\ ~IsNaN(y) /\ ~DLt(x, y) /\ ~DLt(y, x)

\* x >= y
Ge64(x, y) == ~IsNaN(x) /\ ~IsNaN(y) /\ ~DLt(x, y)

LerpValues ==
    {Dbl(-1, 1), Dbl(-9, 10), Dbl(0, 1), Dbl(1, 10), Dbl(3, 10), Dbl(6, 10), Dbl(1, 1)}

EaseInputs ==
    {Dbl(k, 16) : k \in 0..16}
    \cup {Dbl(1, 10), Dbl(3, 10), Dbl(7, 10), Dbl(-1, 2), Dbl(7, 4), <<-1, 0>>, <<1, 0>>}

InterpPoses ==
    {DPose(NEUTRAL_POSE), DPose(PHONEME_MAP["m"]), DPose(PHONEME_MAP["O"]),
     DPose(PHONEME_MAP["b"]),
     [DPose(NEUTRAL_POSE) EXCEPT !.cheekPuffC = Dbl(1, 100)]}

SmoothFactors == {Dbl(SMOOTHING_FACTOR, 1), Dbl(NEUTRAL_RETURN_FACTOR, 1)}

InterpInit ==
    /\ timingProvider = "accurate"
    /\ fallbackProvider = NoProvider
    /\ useAccurateProvider = TRUE
    /\ currentPose = NEUTRAL_POSE
    /\ targetPose = NEUTRAL_POSE
    /\ playbackState = NoSession
    /\ isPaused = FALSE
    /\ calls = << >>
    /\ lastFulfilled = 0
    /\ returned = NEUTRAL_POSE
    /\ now = 0
    /\ ticks = 0
    /\ lastEvent = "none"
    /\ lastUpdate = "none"
    /\ thisNeutralThreshold = NEUTRAL_THRESHOLD
    /\ PluginInit
    /\ ComponentsInit
    /\ result = NoCall
    /\ \/ \E a \in LerpValues, b \in LerpValues, 
             t \in {Dbl(-1, 2), Dbl(0, 1), Dbl(3, 10), Dbl(1, 2), Dbl(1, 1), Dbl(7, 4)} :
             args = [fn |-> "lerp", a |-> a, b |-> b, t |-> t]
       \/ \E t \in EaseInputs : args = [fn |-> "easeInOutQuad", t |-> t]
       \/ \E a \in InterpPoses, b \in InterpPoses, 
             t \in {Dbl(0, 1), Dbl(1, 2), Dbl(1, 1)} :
             args = [fn |-> "lerpPose", a |-> a, b |-> b, t |-> t]
       \/ \E current \in InterpPoses, target \in InterpPoses, smoothFactor \in SmoothFactors,
             deltaTime \in {Dbl(1, 1000), Dbl(16, 1000), Dbl(1, 20)},
             cheekPuffDecayFactor \in {Dbl(CHEEK_PUFF_DECAY_FACTOR, 1), NoNumber} :
             args = [fn |-> "smoothPoseToTarget", current |-> current, target |-> target,
                     smoothFactor |-> smoothFactor, deltaTime |-> deltaTime,
                     cheekPuffDecayFactor |-> cheekPuffDecayFactor]

serviceVars == <<tierVars, engineVars, histVars, calls, lastFulfilled, returned, now, ticks,
                 pluginVars, thisNeutralThreshold, componentVars>>

ApplyLerp ==
    /\ args.fn = "lerp" /\ result = NoCall
    /\ result' = [fn |-> "lerp", value |-> lerp64(args.a, args.b, args.t)]
    /\ UNCHANGED <<args, serviceVars>>

ApplyEase ==
    /\ args.fn = "easeInOutQuad" /\ result = NoCall
    /\ result' = [fn |-> "easeInOutQuad", value |-> easeInOutQuad64(args.t)]
    /\ UNCHANGED <<args, serviceVars>>

ApplyLerpPose ==
    /\ args.fn = "lerpPose" /\ result = NoCall
    /\ result' = [fn |-> "lerpPose", value |-> lerpPose64(args.a, args.b, args.t)]
    /\ UNCHANGED <<args, serviceVars>>

ApplySmooth ==
    /\ args.fn = "smoothPoseToTarget" /\ result = NoCall
    /\ result' = [fn |-> "smoothPoseToTarget",
                  value |-> smoothPoseToTarget64(args.current, args.target, args.smoothFactor,
                                args.deltaTime, args.cheekPuffDecayFactor,
                                DefaultNeutralThreshold)]
    /\ UNCHANGED <<args, serviceVars>>

InterpNext == ApplyLerp \/ ApplyEase \/ ApplyLerpPose \/ ApplySmooth

SpecInterp == InterpInit /\ [][InterpNext]_vars

\* C24: one application of smoothPoseToTarget with rate > 0 and dt > 0
\* strictly decreases |current - target| in every channel that is not at its
\* target, and never passes beyond the target.
C24_CloserNeverBeyond ==
    result.fn = "smoothPoseToTarget" =>
        \A c \in Channels :
            LET cur == args.current[c]
                tgt == args.target[c]
                new == result.value[c]
                Dist(x, y) == CHOOSE v \in {IF DLt(d, Num(0)) THEN Neg(d) ELSE d :
                                          d \in {DAdd(x, Neg(y))}} : TRUE
            IN  ~Eq(cur, tgt) =>
                    /\ DLt(Dist(new, tgt), Dist(cur, tgt))
                    /\ DLt(cur, tgt) => Ge64(tgt, new)
                    /\ DLt(tgt, cur) => Ge64(new, tgt)

\* C25: the cheek channel moves toward the target by rate * dt when the
\* target's cheek value exceeds the neutral threshold; otherwise it moves
\* toward 0 by cheekDecayRate * dt (rate * dt when no decay rate is given),
\* and then, with a decay rate given, the result does not depend on the rate
\* or on the other eight channels.
C25_CheekRule ==
    result.fn = "smoothPoseToTarget" =>
        LET cur  == args.current.cheekPuffC
            tgt  == args.target.cheekPuffC
            new  == result.value.cheekPuffC
            step == Clamp64(DMul(args.smoothFactor, args.deltaTime))
            Decayed(rate) ==
                DAdd(cur, DMul(DAdd(Num(0), Neg(cur)), Clamp64(DMul(rate, args.deltaTime))))
        IN  IF DLt(DefaultNeutralThreshold, tgt)
            THEN new = DAdd(cur, DMul(DAdd(tgt, Neg(cur)), step))
            ELSE /\ args.cheekPuffDecayFactor = NoNumber =>
                        new = Decayed(args.smoothFactor)
                 /\ args.cheekPuffDecayFactor # NoNumber =>
                        /\ new = Decayed(args.cheekPuffDecayFactor)
                        /\ \A current \in InterpPoses, target \in InterpPoses,
                              smoothFactor \in SmoothFactors :
                              (/\ current.cheekPuffC = cur
                               /\ ~DLt(DefaultNeutralThreshold, target.cheekPuffC))
                              => smoothPoseToTarget64(current, target, smoothFactor,
                                     args.deltaTime, args.cheekPuffDecayFactor,
                                     DefaultNeutralThreshold).cheekPuffC = new

C25_Witness ==
    /\ result.fn = "smoothPoseToTarget"
    /\ args.current = DPose(PHONEME_MAP["b"])
    /\ args.target.cheekPuffC = Dbl(1, 100)
    /\ args.smoothFactor = Dbl(NEUTRAL_RETURN_FACTOR, 1)
    /\ args.deltaTime = Dbl(1, 1000)
    /\ args.cheekPuffDecayFactor # NoNumber
    /\ DLt(result.value.cheekPuffC, args.current.cheekPuffC)
    /\ DLt(args.target.cheekPuffC, result.value.cheekPuffC)
    /\ DLt(Num(0), result.value.cheekPuffC)

\* C26: lerp(a, b, t) lies in [min(a, b), max(a, b)], equals a for t <= 0
\* and equals b for t >= 1.
C26_LerpWithinEndpoints ==
    result.fn = "lerp" =>
        /\ Ge64(result.value, IF DLt(args.b, args.a) THEN args.b ELSE args.a)
        /\ Ge64(IF DLt(args.a, args.b) THEN args.b ELSE args.a, result.value)
        /\ Ge64(Num(0), args.t) => Eq(result.value, args.a)
        /\ Ge64(args.t, Num(1)) => Eq(result.value, args.b)

\* C27: easeInOutQuad is monotone non-decreasing on [0, 1], maps 0 to 0,
\* 0.5 to 0.5 and 1 to 1, and maps an input outside [0, 1] to its value at
\* the nearer endpoint.
C27_EaseShape ==
    result.fn = "easeInOutQuad" =>
        /\ \A t \in EaseInputs :
              (Ge64(args.t, Num(0)) /\ Ge64(t, args.t) /\ Ge64(Num(1), t))
              => Ge64(easeInOutQuad64(t), result.value)
        /\ Eq(args.t, Num(0)) => Eq(result.value, Num(0))
        /\ Eq(args.t, Rat(1, 2)) => Eq(result.value, Rat(1, 2))
        /\ Eq(args.t, Num(1)) => Eq(result.value, Num(1))
        /\ DLt(args.t, Num(0)) => Eq(result.value, Num(0))
        /\ DLt(Num(1), args.t) => Eq(result.value, Num(1))

C27_Witness ==
    /\ result.fn = "easeInOutQuad"
    /\ args.t = Dbl(1, 2)
    /\ Eq(result.value, Rat(1, 2))

\* C28: blending two poses at t = 0 gives the first pose and at t = 1 the
\* second, exactly, in all nine channels.
C28_BlendEndpointsExact ==
    result.fn = "lerpPose" =>
        /\ Eq(args.t, Num(0)) => \A c \in Channels : Eq(result.value[c], args.a[c])
        /\ Eq(args.t, Num(1)) => \A c \in Channels : Eq(result.value[c], args.b[c])

(***************************************************************************)
(* EspeakProvider.parsePhonemeString (packages/phoneme-timing).  A string  *)
(* is a sequence of characters; the four markers are written by their code *)
(* points.  PHONEME_IGNORE_CHARS is one RegExp object with the global      *)
(* flag, shared by every call: its lastIndex survives a call of test.      *)
(***************************************************************************)
PrimaryStress == "<02C8>"
SecondaryStress == "<02CC>"
LengthMark == "<02D0>"
HalfLengthMark == "<02D1>"

\* the character class of PHONEME_IGNORE_CHARS
PHONEME_IGNORE_CHARS == {PrimaryStress, SecondaryStress, LengthMark, HalfLengthMark}

\* PHONEME_IGNORE_CHARS.test(char) for a string of one character, called with
\* lastIndex = li: <<the value returned, the lastIndex left behind>>.  With
\* the global flag the search starts at lastIndex; at index 1 of a string of
\* length 1 nothing matches, and a failed search resets lastIndex to 0.
test(char, li) ==
    IF li = 0 /\ char \in PHONEME_IGNORE_CHARS THEN <<TRUE, 1>> ELSE <<FALSE, 0>>

\* the loop of parsePhonemeString from character i on: the phonemes pushed so
\* far, and the lastIndex of the shared expression
RECURSIVE parseFrom(_, _, _, _)
parseFrom(phonemeString, i, phonemes, li) ==
    IF i > Len(phonemeString) THEN [phonemes |-> phonemes, lastIndex |-> li]
    ELSE LET char == phonemeString[i]
         IN  IF char = " " \/ char = "\n" \/ char = "\t"
             THEN parseFrom(phonemeString, i + 1, phonemes, li)
             ELSE LET t == test(char, li)
                  IN  IF t[1] THEN parseFrom(phonemeString, i + 1, phonemes, t[2])
                      ELSE parseFrom(phonemeString, i + 1, Append(phonemes, char), t[2])

\* the strings eSpeak's output is drawn from
PhonemeChars == {"a", PrimaryStress, LengthMark, " ", "\r"}

PhonemeStrings ==
    {<< >>} \cup {<<a>> : a \in PhonemeChars}
    \cup {<<a, b>> : a \in PhonemeChars, b \in PhonemeChars}
    \cup {<<a, b, c>> : a \in PhonemeChars, b \in PhonemeChars, c \in PhonemeChars}

parsePhonemeString(phonemeString) ==
    LET r == parseFrom(phonemeString, 1, << >>, lastIndex)
    IN  /\ args' = [fn |-> "parsePhonemeString", phonemeString |-> phonemeString]
        /\ result' = [fn |-> "parsePhonemeString", value |-> r.phonemes]
        /\ lastIndex' = r.lastIndex
        /\ UNCHANGED <<lipsyncVars, storeVars, managerVars, detectorVars, objectVars, seenTts>>

ParseNext == \E phonemeString \in PhonemeStrings : parsePhonemeString(phonemeString)

SpecParse == Init /\ [][ParseNext]_vars

\* white space, as String.prototype.trim and \s understand it, among the
\* characters of the model
WhiteSpace == {" ", "\n", "\t", "\r"}

\* C35: the list parsePhonemeString returns holds no stress or length
\* marker and no whitespace character, for every input and on every call.
C35_NoMarkerNoWhitespace ==
    result.fn = "parsePhonemeString" =>
        \A i \in 1..Len(result.value) :
            result.value[i] \notin PHONEME_IGNORE_CHARS \cup WhiteSpace

(***************************************************************************)
(* The timing of the built-in providers (packages/phoneme-timing), in      *)
(* binary64 as the providers compute it.                                   *)
(***************************************************************************)
\* a TimedPhoneme as the providers build it
TimedPhoneme(phoneme, startTime, endTime, duration) ==
    [phoneme |-> phoneme, startTime |-> startTime, endTime |-> endTime,
     duration |-> duration]

\* EspeakProvider.estimateTiming with the UNIFORM strategy, on the parsed
\* phonemes of the conversion
estimateTiming(phonemes, audioLengthSeconds, speechRate) ==
    LET Entry(i, timePerPhoneme) ==
            LET Once(startTime, endTime) ==
                    TimedPhoneme(phonemes[i + 1], startTime, endTime,
                                 DAdd(endTime, Neg(startTime)))
            IN  CHOOSE v \in {Once(startTime, endTime) :
                                  startTime \in {DMul(Num(i), timePerPhoneme)},
                                  endTime \in {DMul(Num(i + 1), timePerPhoneme)}} : TRUE
        Uniform(timePerPhoneme) ==
            [k \in 1..Len(phonemes) |-> Entry(k - 1, timePerPhoneme)]
    IN  IF Len(phonemes) = 0 THEN << >>
        ELSE CHOOSE v \in {Uniform(timePerPhoneme) :
                 timePerPhoneme \in {DDiv(DDiv(audioLengthSeconds, speechRate),
                                          Num(Len(phonemes)))}} : TRUE

\* Math.floor(x) for 0 <= x < max + 1
MathFloor(x, max) == CHOOSE k \in 0..max : Ge64(x, Num(k)) /\ DLt(x, Num(k + 1))

commonPhonemes == <<"<0259>", "i", "<0251>", "u", "<025B>", "<00E6>", "n", "l", "s", "t">>

\* MockProvider.getTimedPhonemes(text, audioDuration)
MockProvider_getTimedPhonemes(text, audioDuration) ==
    LET charCount == Cardinality({i \in 1..Len(text) : text[i] \notin WhiteSpace})
        floor == MathFloor(DMul(Num(charCount), Dbl(6, 10)), charCount)
        estimatedPhonemeCount == IF floor > 1 THEN floor ELSE 1
        Entry(i, phoneTimeInterval) ==
            TimedPhoneme(commonPhonemes[(i % Len(commonPhonemes)) + 1],
                         DMul(Num(i), phoneTimeInterval),
                         DMul(Num(i + 1), phoneTimeInterval), phoneTimeInterval)
        Generated(phoneTimeInterval) ==
            [k \in 1..estimatedPhonemeCount |-> Entry(k - 1, phoneTimeInterval)]
    IN  CHOOSE v \in {Generated(phoneTimeInterval) :
            phoneTimeInterval \in {DDiv(audioDuration, Num(estimatedPhonemeCount))}} : TRUE

\* audio lengths, in seconds
AudioLengths == {Dbl(1, 10), Dbl(1, 2), Dbl(9, 10), Dbl(1, 1), Dbl(17, 10), Dbl(2, 1)}

SpeechRates == {Dbl(1, 1), Dbl(3, 2), Dbl(2, 1)}

\* what eSpeak's conversion parsed, and the texts handed to the mock provider
ParsedPhonemes == {SubSeq(<<"h", "<0259>", "l", "o", "w", "d">>, 1, n) : n \in 0..6}

MockTexts == {SubSeq(<<"h", "i", " ", "t", "h", "e", "r", "e", " ", "y", "o", "u">>, 1, n) :
                 n \in 0..12}

TimingInit ==
    /\ timingProvider = "accurate"
    /\ fallbackProvider = NoProvider
    /\ useAccurateProvider = TRUE
    /\ currentPose = NEUTRAL_POSE
    /\ targetPose = NEUTRAL_POSE
    /\ playbackState = NoSession
    /\ isPaused = FALSE
    /\ calls = << >>
    /\ lastFulfilled = 0
    /\ returned = NEUTRAL_POSE
    /\ now = 0
    /\ ticks = 0
    /\ lastEvent = "none"
    /\ lastUpdate = "none"
    /\ thisNeutralThreshold = NEUTRAL_THRESHOLD
    /\ PluginInit
    /\ ComponentsInit
    /\ result = NoCall
    /\ \/ \E phonemes \in ParsedPhonemes, audioLengthSeconds \in AudioLengths,
             speechRate \in SpeechRates :
             args = [fn |-> "estimateTiming", phonemes |-> phonemes,
                     audioLengthSeconds |-> audioLengthSeconds, speechRate |-> speechRate]
       \/ \E text \in MockTexts, audioDuration \in AudioLengths :
             args = [fn |-> "MockProvider", text |-> text, audioDuration |-> audioDuration]

ApplyEstimateTiming ==
    /\ args.fn = "estimateTiming" /\ result = NoCall
    /\ result' = [fn |-> "estimateTiming",
                  adjustedDuration |-> DDiv(args.audioLengthSeconds, args.speechRate),
                  value |-> estimateTiming(args.phonemes, args.audioLengthSeconds,
                                           args.speechRate)]
    /\ UNCHANGED <<args, serviceVars>>

ApplyMockProvider ==
    /\ args.fn = "MockProvider" /\ result = NoCall
    /\ result' = [fn |-> "MockProvider", adjustedDuration |-> args.audioDuration,
                  value |-> MockProvider_getTimedPhonemes(args.text, args.audioDuration)]
    /\ UNCHANGED <<args, serviceVars>>

TimingNext == ApplyEstimateTiming \/ ApplyMockProvider

SpecTiming == TimingInit /\ [][TimingNext]_vars

\* C36: for an audio duration > 0 the sequence a built-in provider returns
\* starts at 0, has every phoneme start exactly where the one before it
\* ends, has startTime < endTime throughout, and ends at the audio duration
\* (for the eSpeak provider: at the duration divided by the speech rate).
C36_WellFormedSequence ==
    result.fn \in {"estimateTiming", "MockProvider"} /\ Len(result.value) > 0 =>
        LET seq == result.value
        IN  /\ Eq(seq[1].startTime, Num(0))
            /\ \A i \in 1..Len(seq) - 1 : Eq(seq[i + 1].startTime, seq[i].endTime)
            /\ \A i \in 1..Len(seq) : DLt(seq[i].startTime, seq[i].endTime)
            /\ Eq(seq[Len(seq)].endTime, result.adjustedDuration)

(***************************************************************************)
(* The target of a playing session as a function of its timeline.          *)
(***************************************************************************)
\* the pose calculateTargetPose gives for a phoneme sequence read elapsedMs
\* milliseconds after the start instant, whatever else the service holds
TargetAt(timedPhonemes, elapsedMs) ==
    calculateTargetPose(AudioPlaybackState(TRUE, 0, Num(0), timedPhonemes), elapsedMs)

MaxStoreTime == 5

DEFAULT_EXPRESSION_HOLD_DURATION == 3

\* config.holdDuration ?? DEFAULT_EXPRESSION_HOLD_DURATION
thisHoldDuration == Num(DEFAULT_EXPRESSION_HOLD_DURATION)

Emotions == {neutralEmotion, "<1F60A>"}

\* the holdDuration arguments of setEmotion; NoNumber is an omitted argument
HoldDurations == {NoNumber, Num(1), Num(2)}

setEmotion(emotion, holdDuration) ==
    LET hold == IF holdDuration = NoNumber THEN thisHoldDuration ELSE holdDuration
    IN  /\ currentEmotion' = emotion
        /\ emotionStartTime' = Num(storeClock)
        /\ emotionEndTime' = Add(Num(storeClock), hold)
        /\ lastSetEmotion' = [fn |-> "setEmotion", emotion |-> emotion,
                              currentTime |-> Num(storeClock), holdDuration |-> hold,
                              touched |-> FALSE]
        /\ result' = [fn |-> "setEmotion"]
        /\ UNCHANGED <<storeClock, args, lastIndex, lipsyncVars, managerVars, detectorVars, objectVars, seenTts>>

\* the state getState returns from the fields it leaves behind
EmotionState(emotion, startTime, endTime) ==
    [currentEmotion |-> emotion, startTime |-> startTime, endTime |-> endTime,
     isNeutral |-> emotion = neutralEmotion]

\* getState that reverts only after the end time has passed
getState_Strict ==
    LET expired == Gt(Num(storeClock), emotionEndTime) /\ currentEmotion # neutralEmotion
    IN  /\ currentEmotion' = IF expired THEN neutralEmotion ELSE currentEmotion
        /\ emotionStartTime' = IF expired THEN Num(storeClock) ELSE emotionStartTime
        /\ emotionEndTime' = IF expired THEN PositiveInfinity ELSE emotionEndTime
        /\ result' = [fn |-> "getState", currentTime |-> Num(storeClock),
                      value |-> EmotionState(currentEmotion', emotionStartTime',
                                             emotionEndTime')]
        /\ UNCHANGED <<storeClock, lastSetEmotion, args, lastIndex, lipsyncVars, managerVars, detectorVars, objectVars, seenTts>>

getState ==
    LET expired == Ge(Num(storeClock), emotionEndTime) /\ currentEmotion # neutralEmotion
    IN  /\ currentEmotion' = IF expired THEN neutralEmotion ELSE currentEmotion
        /\ emotionStartTime' = IF expired THEN Num(storeClock) ELSE emotionStartTime
        /\ emotionEndTime' = IF expired THEN PositiveInfinity ELSE emotionEndTime
        /\ result' = [fn |-> "getState", currentTime |-> Num(storeClock),
                      value |-> EmotionState(currentEmotion', emotionStartTime',
                                             emotionEndTime')]
        /\ UNCHANGED <<storeClock, lastSetEmotion, args, lastIndex, lipsyncVars, managerVars, detectorVars, objectVars, seenTts>>

\* the hold of the last setEmotion is no longer the one it asked for
Touched ==
    IF lastSetEmotion.fn = "none" THEN lastSetEmotion
    ELSE [lastSetEmotion EXCEPT !.touched = TRUE]

resetToNeutral ==
    /\ currentEmotion' = neutralEmotion
    /\ emotionStartTime' = Num(storeClock)
    /\ emotionEndTime' = PositiveInfinity
    /\ lastSetEmotion' = Touched
    /\ result' = [fn |-> "resetToNeutral"]
    /\ UNCHANGED <<storeClock, args, lastIndex, lipsyncVars, managerVars, detectorVars, objectVars, seenTts>>

extendHold(additionalSeconds) ==
    /\ Lt(emotionEndTime, Num(MaxStoreTime)) \/ currentEmotion = neutralEmotion
    /\ emotionEndTime' = IF currentEmotion # neutralEmotion
                         THEN Add(emotionEndTime, additionalSeconds)
                         ELSE emotionEndTime
    /\ lastSetEmotion' = Touched
    /\ result' = [fn |-> "extendHold", wasNeutral |-> currentEmotion = neutralEmotion,
                  endTime |-> emotionEndTime]
    /\ UNCHANGED <<currentEmotion, emotionStartTime, storeClock, args, lastIndex,
                   lipsyncVars, managerVars, detectorVars, objectVars, seenTts>>

\* a second passes on the clock of the callers
StoreTick ==
    /\ storeClock < MaxStoreTime
    /\ storeClock' = storeClock + 1
    /\ UNCHANGED <<currentEmotion, emotionStartTime, emotionEndTime, lastSetEmotion, args,
                   result, lastIndex, lipsyncVars, managerVars, detectorVars, objectVars, seenTts>>

StoreNext ==
    \/ \E emotion \in Emotions, holdDuration \in HoldDurations :
          setEmotion(emotion, holdDuration)
    \/ getState
    \/ resetToNeutral
    \/ extendHold(Num(1))
    \/ StoreTick

SpecStore == Init /\ [][StoreNext]_vars

\* getState has just answered, and the last setEmotion set an emotion other
\* than the neutral one
HoldAsked ==
    /\ result.fn = "getState"
    /\ lastSetEmotion.fn = "setEmotion"
    /\ lastSetEmotion.emotion # neutralEmotion

\* the answer of getState agrees with the hold the last setEmotion asked for
HoldKept ==
    LET end == Add(lastSetEmotion.currentTime, lastSetEmotion.holdDuration)
    IN  /\ Lt(result.currentTime, end)
            => /\ result.value.currentEmotion = lastSetEmotion.emotion
               /\ ~result.value.isNeutral
        /\ Ge(result.currentTime, end)
            => /\ result.value.currentEmotion = neutralEmotion
               /\ result.value.isNeutral

\* C37 as stated: after setEmotion(e, t, h) with e not neutral, getState(now)
\* reports e and isNeutral = false for now < t + h and the neutral emotion
\* with isNeutral = true for now >= t + h, until the next setEmotion.
C37_HoldThenRevert == HoldAsked => HoldKept

\* C37, amended: the same, until the next setEmotion, resetToNeutral or
\* extendHold.
C37_HoldThenRevertUntouched == (HoldAsked /\ ~lastSetEmotion.touched) => HoldKept

\* C37 witness: getState is asked exactly when the hold ends, nothing having
\* touched it, and reports the neutral emotion.
C37_Witness ==
    /\ HoldAsked
    /\ ~lastSetEmotion.touched
    /\ result.currentTime = Add(lastSetEmotion.currentTime, lastSetEmotion.holdDuration)
    /\ result.value.isNeutral

\* C38: whenever getState reports isNeutral = true the endTime it reports is
\* +Infinity, and extendHold leaves the end time of a neutral store as it was.
C38_NeutralHasNoEnd ==
    /\ (result.fn = "getState" /\ result.value.isNeutral)
           => result.value.endTime = PositiveInfinity
    /\ (result.fn = "extendHold" /\ result.wasNeutral) => emotionEndTime = result.endTime

(***************************************************************************)
(* SYNServiceManager (apps/stage-tamagotchi).  A startService call awaits  *)
(* twice: the health probe before the spawn, and waitForService after it.  *)
(* stopAll runs between the awaits of the calls in progress; its own       *)
(* awaits are of stopService, which never suspends, so the loop over the   *)
(* tracked services is one step.                                           *)
(***************************************************************************)
MaxStartAll == 1

\* a spawned process: the service it was spawned for, the signals sent to it
\* with kill, and whether its 'exit' event has been delivered
ChildProcess(serviceId) == [serviceId |-> serviceId, signals |-> << >>, exited |-> FALSE]

\* a startService call: "probe" while it awaits isServiceRunning, "wait"
\* while it awaits waitForService, "returned" once its promise has settled
StartCall(serviceId) == [serviceId |-> serviceId, pc |-> "probe", child |-> NoChild]

\* child.kill(signal)
kill(procs, c, signal) == [procs EXCEPT ![c].signals = Append(@, signal)]

\* startAll: startService('ml-backend', 600) is started and not awaited;
\* startService('speaches', 60) is started in the same turn and awaited
startAll ==
    /\ Len(starts) < 2 * MaxStartAll
    /\ starts' = starts \o <<StartCall("ml-backend"), StartCall("speaches")>>
    /\ UNCHANGED <<services, children, stopAllCalled>>
    /\ UNCHANGED <<lipsyncVars, args, result, lastIndex, storeVars, detectorVars, objectVars, seenTts>>

\* the health probe of call i answers: the call returns when the port is
\* served already, and spawns and tracks a child otherwise
startServiceProbed(i, running) ==
    /\ i \in 1..Len(starts) /\ starts[i].pc = "probe"
    /\ IF running
       THEN /\ starts' = [starts EXCEPT ![i].pc = "returned"]
            /\ UNCHANGED <<services, children>>
       ELSE /\ children' = Append(children, ChildProcess(starts[i].serviceId))
            /\ services' = [services EXCEPT ![starts[i].serviceId] = Len(children')]
            /\ starts' = [starts EXCEPT ![i].pc = "wait", ![i].child = Len(children')]
    /\ UNCHANGED stopAllCalled
    /\ UNCHANGED <<lipsyncVars, args, result, lastIndex, storeVars, detectorVars, objectVars, seenTts>>

\* waitForService of call i answers: a child that is not ready in time is
\* killed; the call returns either way
startServiceWaited(i, isReady) ==
    /\ i \in 1..Len(starts) /\ starts[i].pc = "wait"
    /\ children' = IF isReady THEN children ELSE kill(children, starts[i].child, "SIGTERM")
    /\ starts' = [starts EXCEPT ![i].pc = "returned"]
    /\ UNCHANGED <<services, stopAllCalled>>
    /\ UNCHANGED <<lipsyncVars, args, result, lastIndex, storeVars, detectorVars, objectVars, seenTts>>

\* the 'exit' handler of child c: the entry of its service is deleted
childExit(c) ==
    /\ c \in 1..Len(children) /\ ~children[c].exited
    /\ children' = [children EXCEPT ![c].exited = TRUE]
    /\ services' = [services EXCEPT ![children[c].serviceId] = NoChild]
    /\ UNCHANGED <<starts, stopAllCalled>>
    /\ UNCHANGED <<lipsyncVars, args, result, lastIndex, storeVars, detectorVars, objectVars, seenTts>>

\* the children after stopService of every service in tracked
RECURSIVE stopServices(_, _)
stopServices(procs, tracked) ==
    IF tracked = {} THEN procs
    ELSE LET serviceId == CHOOSE id \in tracked : TRUE
         IN  stopServices(kill(procs, services[serviceId], "SIGTERM"),
                          tracked \ {serviceId})

stopAll ==
    /\ stopAllCalled' = TRUE
    /\ children' = stopServices(children, {id \in ServiceIds : services[id] # NoChild})
    /\ services' = [serviceId \in ServiceIds |-> NoChild]
    /\ UNCHANGED starts
    /\ UNCHANGED <<lipsyncVars, args, result, lastIndex, storeVars, detectorVars, objectVars, seenTts>>

ManagerNext ==
    \/ startAll
    \/ \E i \in 1..(2 * MaxStartAll), running \in BOOLEAN : startServiceProbed(i, running)
    \/ \E i \in 1..(2 * MaxStartAll), isReady \in BOOLEAN : startServiceWaited(i, isReady)
    \/ \E c \in 1..(2 * MaxStartAll) : childExit(c)
    \/ stopAll

SpecManager == Init /\ [][ManagerNext]_vars

\* C39: once stopAll has been called and every startService call has
\* returned, every child the manager spawned that has not exited has been
\* sent a termination signal, and no child is tracked any more.
C39_AllChildrenStopped ==
    (stopAllCalled /\ \A i \in 1..Len(starts) : starts[i].pc = "returned")
        => /\ \A c \in 1..Len(children) :
                  children[c].exited \/ children[c].signals # << >>
           /\ \A serviceId \in ServiceIds : services[serviceId] = NoChild

(***************************************************************************)
(* EmotionMLDetector.init (packages/emotion-visual).  A load is the async  *)
(* function init starts: it creates a pipeline, awaits the race of the     *)
(* pipeline with a five-minute timer, then awaits a test inference.  The   *)
(* timer rejects the race; it does not cancel the pipeline.                *)
(***************************************************************************)
MaxLoads == 4

\* init(): returns at once when a classifier is set, returns the pending
\* promise when there is one, and starts a load otherwise
init ==
    IF classifier
    THEN /\ result' = [fn |-> "init", returned |-> "resolved"]
         /\ UNCHANGED <<detectorVars, args, lipsyncVars, lastIndex, storeVars, managerVars, objectVars, seenTts>>
    ELSE IF initPromise # NoPromise
    THEN /\ result' = [fn |-> "init", returned |-> initPromise]
         /\ UNCHANGED <<detectorVars, args, lipsyncVars, lastIndex, storeVars, managerVars, objectVars, seenTts>>
    ELSE /\ Len(loads) < MaxLoads
         /\ isLoading' = TRUE
         /\ pipelines' = Append(pipelines, "pending")
         /\ loads' = Append(loads, [pipeline |-> Len(pipelines'), pc |-> "race"])
         /\ initPromise' = Len(loads')
         /\ result' = [fn |-> "init", returned |-> initPromise']
         /\ UNCHANGED <<classifier, args, lipsyncVars, lastIndex, storeVars, managerVars, objectVars, seenTts>>

\* the catch and finally blocks of load l
loadFailed(l) ==
    /\ initPromise' = NoPromise
    /\ isLoading' = FALSE
    /\ loads' = [loads EXCEPT ![l].pc = "rejected"]

\* pipeline p settles; a load that awaits it in the race goes on
pipelineSettled(p, fulfilled) ==
    /\ p \in 1..Len(pipelines) /\ pipelines[p] = "pending"
    /\ pipelines' = [pipelines EXCEPT ![p] = IF fulfilled THEN "fulfilled" ELSE "rejected"]
    /\ IF \E l \in 1..Len(loads) : loads[l].pipeline = p /\ loads[l].pc = "race"
       THEN LET l == CHOOSE k \in 1..Len(loads) : loads[k].pipeline = p
            IN  IF fulfilled
                THEN /\ classifier' = TRUE
                     /\ loads' = [loads EXCEPT ![l].pc = "test"]
                     /\ UNCHANGED <<initPromise, isLoading>>
                ELSE /\ loadFailed(l)
                     /\ UNCHANGED classifier
       ELSE UNCHANGED <<classifier, initPromise, isLoading, loads>>
    /\ UNCHANGED <<args, result, lipsyncVars, lastIndex, storeVars, managerVars, objectVars, seenTts>>

\* the five-minute timer of load l fires before its pipeline has settled
initTimeout(l) ==
    /\ l \in 1..Len(loads) /\ loads[l].pc = "race"
    /\ loadFailed(l)
    /\ UNCHANGED <<classifier, pipelines>>
    /\ UNCHANGED <<args, result, lipsyncVars, lastIndex, storeVars, managerVars, objectVars, seenTts>>

\* the test inference of load l returns or throws
testInference(l, returns) ==
    /\ l \in 1..Len(loads) /\ loads[l].pc = "test"
    /\ IF returns
       THEN /\ isLoading' = FALSE
            /\ loads' = [loads EXCEPT ![l].pc = "fulfilled"]
            /\ UNCHANGED initPromise
       ELSE loadFailed(l)
    /\ UNCHANGED <<classifier, pipelines>>
    /\ UNCHANGED <<args, result, lipsyncVars, lastIndex, storeVars, managerVars, objectVars, seenTts>>

DetectorNext ==
    \/ init
    \/ \E p \in 1..MaxLoads, fulfilled \in BOOLEAN : pipelineSettled(p, fulfilled)
    \/ \E l \in 1..MaxLoads : initTimeout(l)
    \/ \E l \in 1..MaxLoads, returns \in BOOLEAN : testInference(l, returns)

SpecDetector == Init /\ [][DetectorNext]_vars

\* C40: at most one pipeline creation is in progress at any time, no
\* pipeline is created once a classifier is set, and when no load is under
\* way and none has produced a classifier, no pending promise is left, so
\* that the next init() starts a load.
C40_SingleFlight ==
    [][ /\ Cardinality({p \in 1..Len(pipelines') : pipelines'[p] = "pending"}) <= 1
        /\ classifier => Len(pipelines') = Len(pipelines)
        /\ (~classifier' /\ \A l \in 1..Len(loads') : loads'[l].pc = "rejected")
               => initPromise' = NoPromise ]_vars

(***************************************************************************)
(* The objects behind the poses.  A reference names a static object of     *)
(* phoneme-map.ts or gives the index of an object in heap.  update is      *)
(* followed object by object: which object each assignment of              *)
(* this.targetPose and this.currentPose installs.                          *)
(***************************************************************************)
Deref(ref) == IF ref.static THEN staticPoses[ref.name] ELSE heap[ref.index]

\* a new object is to be created
NewObject == "new"

\* the object calculateTargetPose returns without copying it: the table
\* entry of the last phoneme, which getPoseForPhoneme hands out as it is
TargetObject(ps, t) ==
    IF ~PlayingOf(ps) THEN NewObject
    ELSE LET found == findActivePhonemes(Rat(t - ps.startTime, 1000), ps.timedPhonemes)
         IN  IF ~found.current.isNull /\ found.next.isNull
                /\ Lookup(found.current.phoneme) # Undefined
             THEN (IF found.current.phoneme = "SIL" THEN "NEUTRAL_POSE"
                   ELSE found.current.phoneme)
             ELSE NewObject

\* update that writes the smoothed pose into the object it returned before
updateObjects_InPlace(deltaTime) ==
    /\ ticks < MaxTicks
    /\ ticks' = ticks + 1
    /\ IF isPaused
       THEN /\ returned' = currentPose
            /\ lastUpdate' = "paused"
            /\ UNCHANGED <<currentPose, targetPose, objectVars>>
       ELSE LET object == TargetObject(playbackState, now)
                target == UpdateTarget(playbackState, now)
                heap1  == IF object = NewObject THEN Append(heap, target) ELSE heap
                pose   == UpdateCurrent(Deref(currentRef), target, playbackState, deltaTime)
            IN  /\ targetPose' = target
                /\ targetRef' = IF object = NewObject THEN HeapRef(Len(heap1))
                                ELSE StaticRef(object)
                /\ currentPose' = pose
                /\ heap' = [heap1 EXCEPT ![currentRef.index] = pose]
                /\ currentRef' = currentRef
                /\ returned' = pose
                /\ lastUpdate' = "smoothed"
                /\ UNCHANGED staticPoses
    /\ UNCHANGED <<tierVars, playbackState, isPaused, calls, lastFulfilled, now,
                   lastEvent>>
    /\ UNCHANGED pluginVars
    /\ UNCHANGED <<thisNeutralThreshold, args, result, lastIndex, storeVars, managerVars,
                   detectorVars, seenTts>>

\* update(deltaTime), with the objects it creates and installs
updateObjects(deltaTime) ==
    /\ ticks < MaxTicks
    /\ ticks' = ticks + 1
    /\ IF isPaused
       THEN /\ returned' = currentPose
            /\ lastUpdate' = "paused"
            /\ UNCHANGED <<currentPose, targetPose, objectVars>>
       ELSE LET object == TargetObject(playbackState, now)
                target == UpdateTarget(playbackState, now)
                heap1  == IF object = NewObject THEN Append(heap, target) ELSE heap
                pose   == UpdateCurrent(Deref(currentRef), target, playbackState, deltaTime)
            IN  /\ targetPose' = target
                /\ targetRef' = IF object = NewObject THEN HeapRef(Len(heap1))
                                ELSE StaticRef(object)
                /\ currentPose' = pose
                /\ heap' = Append(heap1, pose)
                /\ currentRef' = HeapRef(Len(heap'))
                /\ returned' = pose
                /\ lastUpdate' = "smoothed"
                /\ UNCHANGED staticPoses
    /\ UNCHANGED <<tierVars, playbackState, isPaused, calls, lastFulfilled, now,
                   lastEvent>>
    /\ UNCHANGED pluginVars
    /\ UNCHANGED <<thisNeutralThreshold, args, result, lastIndex, storeVars, managerVars,
                   detectorVars, seenTts>>

ObjectsNext ==
    \/ \E p \in FallbackProviders : setFallbackProvider(p)
    \/ useAccurateTiming
    \/ useFallbackEstimation
    \/ pause
    \/ resume
    \/ \E text \in Texts, d \in AudioDurations : onTtsAudioReadyCall(text, d)
    \/ \E i \in 1..MaxCalls : onTtsAudioReadyResolve(i)
    \/ \E i \in 1..MaxCalls : onTtsAudioReadyReject(i)
    \/ onTtsAudioStart
    \/ onTtsAudioEnd
    \/ \E dt \in DeltaTimes : updateObjects(dt)
    \/ AdvanceClock

\* the service some way into a session, as LookupInit draws it, for one
\* threshold, two clock readings and the sequences of the accurate provider
ObjectsStart ==
    /\ LookupInit
    /\ thisNeutralThreshold = NEUTRAL_THRESHOLD
    /\ now \in {0, 150}
    /\ playbackState.timedPhonemes \in {getTimedPhonemes("accurate", text) : text \in {"mi", "other"}}

SpecObjects == ObjectsStart /\ [][ObjectsNext]_vars

AdapterTexts == {"", "other"}

AdapterDurations == {Num(0), Rat(1, 4), Rat(1, 2)}

\* the plugin function, in a run whose frames are not counted; seenTts keeps
\* the utterance a processed frame read
FrameSeen(enabled, handled, isIdleMotion) ==
    /\ lastUpdateTime' = now
    /\ IF ~enabled \/ handled \/ (~isActive /\ ~isIdleMotion)
       THEN /\ frame' = NoFrame
            /\ UNCHANGED <<engineVars, calls, returned, histVars, lastTtsText,
                           lastTtsAudioDuration, lastTtsIsPlaying, audioReady, seenTts>>
       ELSE /\ FrameBody(isActive,
                         IF lastUpdateTime > 0 THEN Rat(now - lastUpdateTime, 1000)
                         ELSE FallbackDeltaTime,
                         {})
            /\ seenTts' = [text |-> ttsText, audioDuration |-> ttsAudioDuration]
    /\ UNCHANGED <<tierVars, isPaused, lastFulfilled, now, ticks, hostVars, frames>>
    /\ UNCHANGED <<thisNeutralThreshold, args, result, lastIndex, storeVars, managerVars,
                   detectorVars, objectVars>>

AdapterNext ==
    \/ \E text \in AdapterTexts, d \in AdapterDurations : HostSpeak(text, d)
    \/ HostPlay
    \/ HostStop
    \/ \E enabled \in BOOLEAN, handled \in BOOLEAN, isIdleMotion \in BOOLEAN :
          FrameSeen(enabled, handled, isIdleMotion)
    \/ \E i \in 1..MaxCalls : PluginReadyResolve(i)
    \/ \E i \in 1..MaxCalls : PluginReadyReject(i)

\* the host keeps calling the plugin with idle motion and nothing handled,
\* and a provider that is going to answer does answer
SpecAdapter ==
    /\ Init
    /\ [][AdapterNext]_vars
    /\ WF_vars(FrameSeen(TRUE, FALSE, TRUE))
    /\ \A i \in 1..MaxCalls : WF_vars(PluginReadyResolve(i))

\* the host's current utterance is the one last passed to onTtsAudioReady,
\* and that call has resolved
Prepared ==
    /\ calls # << >>
    /\ calls[Len(calls)].text = ttsText
    /\ calls[Len(calls)].audioDuration = ttsAudioDuration
    /\ calls[Len(calls)].status = "fulfilled"

\* C33: for an utterance passed to onTtsAudioReady, once that call has
\* resolved and while ttsIsPlaying is up and stays up, the plugin eventually
\* calls onTtsAudioStart, whether the flag rose before or after the call
\* resolved.
C33_StartFollowsPlay ==
    [](Prepared /\ ttsIsPlaying /\ lastEvent # "start"
          => <>(lastEvent = "start" \/ ~ttsIsPlaying \/ ~Prepared))

ValidPair == ttsText # "" /\ Gt(ttsAudioDuration, Num(0))

PairChanged == seenTts # [text |-> ttsText, audioDuration |-> ttsAudioDuration]

\* C34: a processed frame calls onTtsAudioReady exactly when the pair of
\* ttsText and ttsAudioDuration is not the one the processed frame before it
\* read and has a non-empty text and a duration > 0; the call carries that
\* pair, and no call is made outside a processed frame.
C34_PrepareOncePerChange ==
    [][ /\ \A isIdleMotion \in BOOLEAN :
              (FrameSeen(TRUE, FALSE, isIdleMotion) /\ frame'.ran)
                  => (CallStep <=> (ValidPair /\ PairChanged))
        /\ CallStep => /\ ValidPair
                       /\ calls'[Len(calls')].text = ttsText
                       /\ calls'[Len(calls')].audioDuration = ttsAudioDuration
                       /\ \E isIdleMotion \in BOOLEAN : FrameSeen(TRUE, FALSE, isIdleMotion) ]_vars

====
